---- MODULE Spec2Model ----
(***************************************************************************)
(* Verification model of the tg_parser crawler: the range planner          *)
(* (TelegramChannelCollection.find_non_overlapping_ranges), the session    *)
(* lease manager (ResourceLockManager) and the task handlers of            *)
(* crawler/procedures and crawler/routes.                                  *)
(*                                                                         *)
(* Seven specifications share the variables:                                 *)
(*   PlannerSpec  the planner as a pure function of a table content;       *)
(*   ManagerSpec  on_kv_event and update_resources on drawn local states;  *)
(*   SessionSpec  one call of session(timeout) against a drawn bucket;     *)
(*   FaultSpec    the same call and the refresher, with failing KV calls;  *)
(*   TaskSpec     one worker handling deliveries of one task;              *)
(*   StickySpec   the same worker beside a pod that holds sessions;        *)
(*   Spec         a cluster of workers sharing the KV bucket.              *)
(***************************************************************************)
EXTENDS Integers, Sequences, FiniteSets, TLC

(***************************************************************************)
(* Bounds of the model.                                                    *)
(***************************************************************************)
\* instants are 0..MaxTime; the request window ends at "now" <= MaxTime
MaxTime == 3
\* rows of channel_collections drawn for the planner
MaxRecords == 2

Times == 0..MaxTime

\* the absent value (Python None) of integer fields
None == 0

\* the workers (pods) of the cluster and the Telegram sessions they share
Workers == {"w1", "w2"}
Sessions == {1, 2}
\* the channels tasks are about
Channels == {1, 2}

\* settings.APP_NAME, the value update_keys_task compares a KV value with
APP_NAME == "Chat Parser"

\* forwarded watch events a worker has not handled yet
MaxQueue == 1
\* deliveries of one bus message (max_deliver of the consumer)
MaxDeliver == 2
\* bus messages a worker handles in one run
MaxTasks == 1
\* messages in the history of a channel
MaxMsgs == 2
\* watch events drawn for a manager, and the revisions they carry
MaxEvents == 2
MaxRevision == 2
\* the clock of session(timeout), in retry intervals of 0.5 s
MaxWait == 3

VARIABLES
    \* ---- PostgreSQL ----
    table,        \* committed rows of crawler.channel_collections
    directory,    \* ids of the rows of the sessions table
    entities,     \* channels that have a committed row in the entities table
    \* ---- request and planner call (PlannerSpec) ----
    reqFrom,      \* from_datetime of the request (datetime_offset of a task)
    reqTo,        \* to_datetime of the request (now)
    tieOrder,     \* the order in which equal from_datetime rows are returned
    planned,      \* the list returned by find_non_overlapping_ranges
    ppc,          \* "ready" before the call, "done" after it
    \* ---- NATS KV bucket and its watchers ----
    kv,           \* key of session s: present, value, revision, stale (TTL)
    watch,        \* per worker: the events update_keys_task will forward
    podName,      \* settings.POD_NAME of each worker (instance_id)
    \* ---- ResourceLockManager of each worker ----
    states,       \* _states: per session known/version/locked
    current,      \* _current: the state object session() picked last
    mutex,        \* _lock is held across awaits (only _reload_states does)
    rf,           \* position of auto_refresher / refresh / _reload_states
    fin,          \* pending finalisation of an abandoned session() generator
    held,         \* history: the lease a worker acquired, "live" until purged
    \* ---- Telegram and the outbound subject ----
    history,      \* messages of the channel, newest first
    lastId,       \* last_message_id of schedule tasks
    outbox,       \* ids of the messages published to the outbound subject
    \* ---- tasks ----
    active,       \* the workers that consume tasks
    feed,         \* per worker, the messages it is given: handler, channel and
                  \* the delivery count the message arrives with
    quota,        \* per worker, the bus messages it handles in this run
    tk            \* per worker: the delivery being handled and its locals

reqVars == <<reqFrom, reqTo, tieOrder, planned, ppc>>
dbVars == <<table, directory, entities>>
leaseVars == <<kv, watch, podName, states, current, mutex, rf, fin, held>>
chanVars == <<history, lastId, outbox>>
taskVars == <<active, feed, quota, tk>>

vars == <<table, directory, entities, reqFrom, reqTo, tieOrder, planned, ppc,
          kv, watch, podName, states, current, mutex, rf, fin, held,
          history, lastId, outbox, active, feed, quota, tk>>

(***************************************************************************)
(* Range planner.                                                          *)
(***************************************************************************)
\* a row of channel_collections; only the datetime range matters to the planner
Row(fd, td) == [from_datetime |-> fd, to_datetime |-> td]

\* the WHERE clause of check_overlap: the three-way overlap test
OverlapsRequest(r, f, t) ==
    \/ (r.from_datetime <= f /\ f <= r.to_datetime)
    \/ (r.from_datetime <= t /\ t <= r.to_datetime)
    \/ (f <= r.from_datetime /\ r.to_datetime <= t)

\* check_overlap: the selected rows (ORDER BY from_datetime is SortedBy below)
check_overlap(rows, f, t) == {r \in rows : OverlapsRequest(r, f, t)}

\* the sequences that list every row of S once
Perms(S) ==
    {q \in [1..Cardinality(S) -> S] : \A i, j \in 1..Cardinality(S) : i # j => q[i] # q[j]}

\* ORDER BY from_datetime / sorted(key=from_datetime): any order that is
\* non-decreasing in from_datetime (rows with equal keys come in any order)
SortedBy(S) ==
    {q \in Perms(S) : \A i \in 1..(Cardinality(S) - 1) :
                          q[i].from_datetime <= q[i + 1].from_datetime}

\* the walk of find_non_overlapping_ranges over the sorted rows:
\* cur is current_time, acc the list ranges_to_collect
RECURSIVE Walk(_, _, _, _)
Walk(q, i, cur, acc) ==
    IF i > Len(q) THEN <<cur, acc>>
    ELSE LET c == q[i]
             acc2 == IF cur < c.from_datetime
                     THEN Append(acc, <<cur, c.from_datetime>>)
                     ELSE acc
             cur2 == IF c.to_datetime > cur THEN c.to_datetime ELSE cur
         IN Walk(q, i + 1, cur2, acc2)

\* find_non_overlapping_ranges with the rows already selected and sorted (q)
RangesFromSorted(q, f, t) ==
    IF Len(q) = 0 THEN << <<f, t>> >>
    ELSE LET w == Walk(q, 1, f, << >>)
         IN IF w[1] < t THEN Append(w[2], <<w[1], t>>) ELSE w[2]

\* find_non_overlapping_ranges: every list the call can return
find_non_overlapping_ranges(rows, f, t) ==
    {RangesFromSorted(q, f, t) : q \in SortedBy(check_overlap(rows, f, t))}

(***************************************************************************)
(* NATS KV bucket: one key per session.  A revision is only ever compared  *)
(* for equality (the CAS of update), so after every write the revisions    *)
(* still referenced somewhere are renumbered by rank.                     *)
(***************************************************************************)
AbsentKey == [present |-> FALSE, value |-> "", revision |-> None, stale |-> FALSE]

\* the entry kv.create / kv.update writes: value is the instance_id
WrittenKey(w, rev) ==
    [present |-> TRUE, value |-> podName[w], revision |-> rev, stale |-> FALSE]

\* every revision some part of the state still refers to
RevsOf(kvN, statesN, watchN, rfN, tkN) ==
    {kvN[s].revision : s \in Sessions}
        \cup {statesN[w][s].version : w \in Workers, s \in Sessions}
        \cup UNION {{watchN[w][i].revision : i \in 1..Len(watchN[w])} : w \in Workers}
        \cup {rfN[w].ver : w \in Workers}
        \cup {tkN[w].ver : w \in Workers}

\* the revision the bucket gives the next write: larger than all before it
NewRevision ==
    LET R == RevsOf(kv, states, watch, rf, tk) \cup {None}
    IN (CHOOSE m \in R : \A x \in R : x <= m) + 1

\* the next state of the revision-bearing variables, renumbered by rank
Renumbered(kvN, statesN, watchN, rfN, tkN) ==
    LET R == RevsOf(kvN, statesN, watchN, rfN, tkN) \ {None}
        rank(r) == IF r = None THEN None ELSE Cardinality({x \in R : x <= r})
    IN /\ kv' = [s \in Sessions |-> [kvN[s] EXCEPT !.revision = rank(@)]]
       /\ states' = [w \in Workers |->
                        [s \in Sessions |-> [statesN[w][s] EXCEPT !.version = rank(@)]]]
       /\ watch' = [w \in Workers |->
                       [i \in 1..Len(watchN[w]) |->
                           [watchN[w][i] EXCEPT !.revision = rank(@)]]]
       /\ rf' = [w \in Workers |-> [rfN[w] EXCEPT !.ver = rank(@)]]
       /\ tk' = [w \in Workers |-> [tkN[w] EXCEPT !.ver = rank(@)]]

\* update_keys_task returns before on_kv_event unless the value of the entry
\* equals settings.APP_NAME; the events it drops are not queued
Forwarded(value) == value = APP_NAME

\* the watchers of the bucket receive the put of a key
Publish(q, ev, value) ==
    IF Forwarded(value)
    THEN [w \in Workers |-> IF w \in active THEN Append(q[w], ev) ELSE q[w]]
    ELSE q

CanPublish(value) ==
    Forwarded(value) => \A w \in active : Len(watch[w]) < MaxQueue

PutEvent(s, rev) == [key |-> s, operation |-> "NONE", revision |-> rev]

\* a lock that wrote the key with kv.put: it would succeed on any key
LockSucceeds_put(s) == TRUE

\* a create that took over a key nobody refreshed for a TTL period
LockSucceeds_stale(s) == ~kv[s].present \/ kv[s].stale

\* kv.create succeeds only on a key that is absent (deleted, purged, expired)
LockSucceeds(s) == ~kv[s].present

\* kv.purge(key) by worker w: the key is removed whoever wrote it.  A purge
\* carries no value, so update_keys_task forwards none of them.
\* History: the purger's own lease ends; the live lease of another worker is
\* destroyed without its holder having released it ("stolen").
HeldAfterPurge(w, s) ==
    [x \in Workers |->
        [held[x] EXCEPT ![s] = IF x = w THEN "no"
                               ELSE IF @ = "live" THEN "stolen" ELSE @]]

(***************************************************************************)
(* ResourceLockManager: local states.                                      *)
(***************************************************************************)
\* ResourceState(resource_id): version None, locked False
FreeState == [known |-> TRUE, version |-> None, locked |-> FALSE]
\* an id that is not a key of _states
NoState == [known |-> FALSE, version |-> None, locked |-> FALSE]
\* a local state marked locked without the revision
LockedState_unversioned(rev) == [known |-> TRUE, version |-> None, locked |-> TRUE]

LockedState(rev) == [known |-> TRUE, version |-> rev, locked |-> TRUE]

\* key.startswith(self.key_prefix): None stands for a key of another prefix
UnderPrefix(key) == key # None

\* a handler that ignored the removal of a key
on_kv_event_put_only(st, operation, revision) ==
    IF operation = "NONE" THEN LockedState(revision)
    ELSE [st EXCEPT !.known = TRUE]

\* on_kv_event: the state of the resource after the event
on_kv_event(st, operation, revision) ==
    IF operation \in {"DEL", "PURGE"} THEN FreeState
    ELSE IF operation = "NONE" THEN LockedState(revision)
    ELSE [st EXCEPT !.known = TRUE]

\* a release that flipped the flag instead of clearing it
UnlockedState_toggle(st) ==
    IF st.known THEN [known |-> TRUE, version |-> None, locked |-> ~st.locked]
    ELSE st

\* the local part of unlock: an id that is in _states becomes free
UnlockedState(st) == IF st.known THEN FreeState ELSE st

\* a reconciliation that dropped every id that is not listed
update_resources_drop(sts, new_ids) ==
    [s \in Sessions |-> IF s \in new_ids
                        THEN (IF sts[s].known THEN sts[s] ELSE FreeState)
                        ELSE NoState]

\* update_resources(new_ids): add unseen ids, drop the free ids not listed
update_resources(sts, new_ids) ==
    [s \in Sessions |->
        IF ~sts[s].known THEN (IF s \in new_ids THEN FreeState ELSE sts[s])
        ELSE IF s \notin new_ids /\ ~sts[s].locked THEN NoState
        ELSE sts[s]]

\* _current after update_resources: a dropped state object stays referenced
\* by _current but is no longer the object _states holds for that id
CurrentAfterUpdate(cur, sts, new_ids) ==
    IF cur.rid # None /\ ~update_resources(sts, new_ids)[cur.rid].known
    THEN [cur EXCEPT !.orphan = TRUE]
    ELSE cur

\* the version refresh reads from _current (None when there is nothing to do)
CurrentVersion(w) ==
    IF current[w].rid = None \/ current[w].orphan THEN None
    ELSE states[w][current[w].rid].version

(***************************************************************************)
(* update_keys_task: one forwarded watch event reaches on_kv_event.        *)
(***************************************************************************)
update_keys_task(w) ==
    /\ Len(watch[w]) > 0
    /\ ~mutex[w]
    /\ LET ev == Head(watch[w])
       IN states' = IF UnderPrefix(ev.key)
                    THEN [states EXCEPT ![w][ev.key] =
                             on_kv_event(@, ev.operation, ev.revision)]
                    ELSE states
    /\ watch' = [watch EXCEPT ![w] = Tail(@)]
    /\ UNCHANGED <<kv, podName, current, mutex, rf, fin, held>>
    /\ UNCHANGED <<dbVars, chanVars, taskVars, reqVars>>

(***************************************************************************)
(* auto_refresher: refresh() and, on a sequence mismatch, _reload_states.  *)
(***************************************************************************)
\* an update that did not compare the revision
UpdateOutcomes_blind(s, last) ==
    IF kv[s].present THEN {"ok"} ELSE {"not_found", "wrong_sequence"}

\* what kv.update(key, payload, last) answers
UpdateOutcomes(s, last) ==
    IF kv[s].present
    THEN (IF kv[s].revision = last THEN {"ok"} ELSE {"wrong_sequence"})
    ELSE {"not_found", "wrong_sequence"}

RefreshStart(w) ==
    /\ w \in active
    /\ rf[w].pc = "sleep"
    /\ CurrentVersion(w) # None
    /\ LET s == current[w].rid
           last == CurrentVersion(w)
       IN \E o \in UpdateOutcomes(s, last) :
            CASE o = "ok" ->
                    /\ CanPublish(podName[w])
                    /\ LET rev == NewRevision
                       IN Renumbered([kv EXCEPT ![s] = WrittenKey(w, rev)],
                                     states,
                                     Publish(watch, PutEvent(s, rev), podName[w]),
                                     [rf EXCEPT ![w].pc = "updated", ![w].ver = rev],
                                     tk)
              [] o = "wrong_sequence" ->
                    /\ rf' = [rf EXCEPT ![w].pc = "reload"]
                    /\ UNCHANGED <<kv, states, watch, tk>>
              [] o = "not_found" ->
                    /\ rf' = [rf EXCEPT ![w].pc = "failed"]
                    /\ UNCHANGED <<kv, states, watch, tk>>
    /\ UNCHANGED <<podName, current, mutex, fin, held, active, feed, quota>>
    /\ UNCHANGED <<dbVars, chanVars, reqVars>>

\* refresh, after kv.update returned: self._current.version = ver
RefreshFinish(w) ==
    /\ rf[w].pc = "updated"
    /\ ~mutex[w]
    /\ states' = IF current[w].orphan THEN states
                 ELSE [states EXCEPT ![w][current[w].rid].version = rf[w].ver]
    /\ rf' = [rf EXCEPT ![w].pc = "sleep", ![w].ver = None]
    /\ UNCHANGED <<kv, watch, podName, current, mutex, fin, held>>
    /\ UNCHANGED <<dbVars, chanVars, taskVars, reqVars>>

\* refresh, after kv.update raised another KeyValueError: the error is
\* logged and refresh returns
RefreshFail(w) ==
    /\ rf[w].pc = "failed"
    /\ rf' = [rf EXCEPT ![w].pc = "sleep"]
    /\ UNCHANGED <<kv, watch, podName, states, current, mutex, fin, held>>
    /\ UNCHANGED <<dbVars, chanVars, taskVars, reqVars>>

\* _reload_states: kv.keys(), then under _lock every state is reset
ReloadBegin(w) ==
    /\ rf[w].pc = "reload"
    /\ LET keys == {s \in Sessions : kv[s].present}
       IN IF keys = {}
          THEN /\ rf' = [rf EXCEPT ![w].pc = "sleep"]
               /\ UNCHANGED <<states, mutex>>
          ELSE /\ ~mutex[w]
               /\ mutex' = [mutex EXCEPT ![w] = TRUE]
               /\ states' = [states EXCEPT ![w] =
                                [s \in Sessions |-> UnlockedState(states[w][s])]]
               /\ rf' = [rf EXCEPT ![w].pc = "gets", ![w].keys = keys]
    /\ UNCHANGED <<kv, watch, podName, current, fin, held>>
    /\ UNCHANGED <<dbVars, chanVars, taskVars, reqVars>>

\* _reload_states: kv.get of one listed key; after the last one _lock is released
ReloadGet(w) ==
    /\ rf[w].pc = "gets"
    /\ \E k \in rf[w].keys :
          /\ states' = IF kv[k].present
                       THEN [states EXCEPT ![w][k] = LockedState(kv[k].revision)]
                       ELSE states
          /\ IF rf[w].keys = {k}
             THEN /\ rf' = [rf EXCEPT ![w].pc = "sleep", ![w].keys = {}]
                  /\ mutex' = [mutex EXCEPT ![w] = FALSE]
             ELSE /\ rf' = [rf EXCEPT ![w].keys = @ \ {k}]
                  /\ UNCHANGED mutex
    /\ UNCHANGED <<kv, watch, podName, current, fin, held>>
    /\ UNCHANGED <<dbVars, chanVars, taskVars, reqVars>>

(***************************************************************************)
(* Failures of the store other than the answers modelled above.  The       *)
(* manager tells them apart by class only: "KeyValueError" is an error of  *)
(* that class (a bucket that is gone, say), "Error" one outside it (a      *)
(* request that timed out, no response from the stream, a server error).   *)
(***************************************************************************)
GatewayErrors == {"KeyValueError", "Error"}

\* the except clauses around kv.update in refresh: a KeyValueError is logged
\* and refresh returns, any other error leaves refresh
RefreshCatches(e) == e = "KeyValueError"

\* the except clause around kv.get in _reload_states
ReloadGetCatches(e) == e = "KeyValueError"

\* kv.update of refresh fails: what is not caught leaves refresh and
\* auto_refresher, which has no handler around rlm.refresh()
RefreshFault(w) ==
    /\ w \in active
    /\ rf[w].pc = "sleep"
    /\ CurrentVersion(w) # None
    /\ \E e \in GatewayErrors :
          rf' = [rf EXCEPT ![w].pc = IF RefreshCatches(e) THEN "failed" ELSE "dead"]
    /\ UNCHANGED <<kv, watch, podName, states, current, mutex, fin, held>>
    /\ UNCHANGED <<dbVars, chanVars, taskVars, reqVars>>

\* _reload_states, a call of the store fails: kv.keys() is inside
\* "except Exception" (reload returns before the reset); a KeyValueError of
\* kv.get skips the key, any other error leaves the "async with self._lock"
\* block, refresh and auto_refresher
ReloadFault(w) ==
    \/ /\ rf[w].pc = "reload"
       /\ rf' = [rf EXCEPT ![w].pc = "sleep"]
       /\ UNCHANGED mutex
       /\ UNCHANGED <<kv, watch, podName, states, current, fin, held>>
       /\ UNCHANGED <<dbVars, chanVars, taskVars, reqVars>>
    \/ /\ rf[w].pc = "gets"
       /\ \E k \in rf[w].keys, e \in GatewayErrors :
             IF ~ReloadGetCatches(e)
             THEN /\ rf' = [rf EXCEPT ![w].pc = "dead", ![w].keys = {}]
                  /\ mutex' = [mutex EXCEPT ![w] = FALSE]
             ELSE IF rf[w].keys = {k}
             THEN /\ rf' = [rf EXCEPT ![w].pc = "sleep", ![w].keys = {}]
                  /\ mutex' = [mutex EXCEPT ![w] = FALSE]
             ELSE /\ rf' = [rf EXCEPT ![w].keys = @ \ {k}]
                  /\ UNCHANGED mutex
       /\ UNCHANGED <<kv, watch, podName, states, current, fin, held>>
       /\ UNCHANGED <<dbVars, chanVars, taskVars, reqVars>>

(***************************************************************************)
(* The generator of session() that a handler entered with __aenter__() and *)
(* dropped: its finalisation runs the finally block, unlock(picked).       *)
(***************************************************************************)
FinPurge(w) ==
    /\ fin[w].pc = "armed"
    /\ Renumbered([kv EXCEPT ![fin[w].rid] = AbsentKey], states, watch, rf, tk)
    /\ held' = HeldAfterPurge(w, fin[w].rid)
    /\ fin' = [fin EXCEPT ![w].pc = "local"]
    /\ UNCHANGED <<podName, current, mutex, active, feed, quota>>
    /\ UNCHANGED <<dbVars, chanVars, reqVars>>

FinLocal(w) ==
    /\ fin[w].pc = "local"
    /\ ~mutex[w]
    /\ states' = [states EXCEPT ![w][fin[w].rid] = UnlockedState(@)]
    /\ fin' = [fin EXCEPT ![w] = [pc |-> "idle", rid |-> None]]
    /\ UNCHANGED <<kv, watch, podName, current, mutex, rf, held>>
    /\ UNCHANGED <<dbVars, chanVars, taskVars, reqVars>>

(***************************************************************************)
(* TTL of the bucket.  A key nobody wrote for a period is stale; a stale   *)
(* key that is still not refreshed expires.  A period is long compared to  *)
(* one call of the manager: none passes between the KV write of lock,      *)
(* unlock or session() and the local update that follows it, nor while a   *)
(* finalisation is pending (it runs in the next iterations of the loop).   *)
(***************************************************************************)
NoCallInFlight ==
    \A w \in Workers :
        /\ fin[w].pc = "idle"
        /\ tk[w].pc \notin {"lock_local", "sess_locked", "unlock_local"}

Tick ==
    /\ NoCallInFlight
    /\ \E s \in Sessions : \/ kv[s].present /\ ~kv[s].stale
                           \/ \E w \in Workers : held[w][s] = "stolen"
    /\ kv' = [s \in Sessions |-> IF kv[s].present THEN [kv[s] EXCEPT !.stale = TRUE]
                                 ELSE kv[s]]
    /\ held' = [w \in Workers |-> [s \in Sessions |->
                   IF held[w][s] = "stolen" THEN "no" ELSE held[w][s]]]
    /\ UNCHANGED <<watch, podName, states, current, mutex, rf, fin>>
    /\ UNCHANGED <<dbVars, chanVars, taskVars, reqVars>>

Expire(s) ==
    /\ NoCallInFlight
    /\ kv[s].present
    /\ kv[s].stale
    /\ Renumbered([kv EXCEPT ![s] = AbsentKey], states, watch, rf, tk)
    /\ held' = [w \in Workers |-> [held[w] EXCEPT ![s] = IF @ = "live" THEN "no" ELSE @]]
    /\ UNCHANGED <<podName, current, mutex, fin, active, feed, quota>>
    /\ UNCHANGED <<dbVars, chanVars, reqVars>>

(***************************************************************************)
(* Tasks.  A task is one bus message; kind names the handler it reaches:   *)
(*   "PN"  crawler/procedures/new_channel.py  handle_new_channel           *)
(*   "PS"  crawler/procedures/schedule.py     handle_schedule              *)
(*   "RN"  crawler/routes/new_channel.py      handle_new_channels          *)
(*   "RS"  crawler/routes/schedule.py         handle_schedule              *)
(***************************************************************************)
Kinds == {"PN", "PS", "RN", "RS"}

\* the session find_subscribed_session returns for the entity of a channel:
\* channel 2 was crawled with session 1 before, channel 1 never
subscribed(c) == IF c = 2 THEN 1 ELSE None

\* TelegramMessageMetadata()
NoMeta == [from_message_id |-> None, to_message_id |-> None,
           from_datetime |-> None, to_datetime |-> None, count |-> 0]

\* TelegramMessageMetadata.update_message
update_message(meta, message_id, message_date) ==
    [from_message_id |-> IF meta.from_message_id = None THEN message_id
                         ELSE meta.from_message_id,
     from_datetime |-> IF meta.from_message_id = None THEN message_date
                       ELSE meta.from_datetime,
     to_message_id |-> message_id,
     to_datetime |-> message_date,
     count |-> meta.count + 1]

\* a lambda that let the message with id last_message_id through
ScheduleStop_below(m) == m.id < lastId

\* the lambda handle_schedule passes as condition
ScheduleStop(m) == m.id <= lastId

\* the lambda _collect_messages_for_range passes as condition, for the
\* sub-range (a, b)
RangeStop(m, a, b) == a >= m.date /\ m.date >= b

\* the condition a handler passes to collect_messages, on message m of the
\* range (a, b); "raise" is the AttributeError of body.last_message_id
condition(kind, m, a, b) ==
    CASE kind = "PN" -> IF RangeStop(m, a, b) THEN "stop" ELSE "go"
      [] kind = "PS" -> IF ScheduleStop(m) THEN "stop" ELSE "go"
      [] kind = "RS" -> IF ScheduleStop(m) THEN "stop" ELSE "go"
      [] kind = "RN" -> "raise"

\* collect_messages on a rate limit of the client: the sentinel (None, metadata)
\* when something was collected, the error otherwise
flood_outcome(meta) == IF meta.count > 0 THEN "sentinel" ELSE "raise"

\* a loop that counted every message twice
next_counter_twice(message_counter) == message_counter + 2

\* message_counter += 1 of the loop over collect_messages
next_counter(message_counter) == message_counter + 1

\* a guard that let the record of an empty sub-range through
ShouldSave_always(kind, message_counter, meta) == TRUE

\* a guard that skipped the record of a single message
ShouldSave_many(kind, message_counter, meta) ==
    /\ message_counter > 1
    /\ meta.count > 0

\* the guard of _save_collection_metadata (the routes test only its first line)
ShouldSave(kind, message_counter, meta) ==
    /\ message_counter > 0
    /\ meta.count > 0
    /\ kind \in {"PN", "PS"} =>
          /\ meta.from_message_id # None
          /\ meta.to_message_id # None

\* the row create_collection_record adds to the session and flushes
CollectionRow(entity_id, meta, messages_count) ==
    [entity_id |-> entity_id,
     from_message_id |-> meta.from_message_id,
     to_message_id |-> meta.to_message_id,
     from_datetime |-> meta.from_datetime,
     to_datetime |-> meta.to_datetime,
     messages_count |-> messages_count]

\* UniqueConstraint(entity_id, from_message_id, to_message_id)
ViolatesUnique(rows, r) ==
    \E x \in rows : /\ x.entity_id = r.entity_id
                    /\ x.from_message_id = r.from_message_id
                    /\ x.to_message_id = r.to_message_id

\* session(timeout=None): deadline is None
NoTimeout == -1

\* no task: the locals of a handler before it runs (refused is history: the
\* subscribed session whose lock returned False in this delivery)
IdleTask ==
    [kind |-> "none", chan |-> None, pc |-> "idle", n |-> 0, nd |-> 0,
     ret |-> "", rid |-> None, res |-> FALSE, ver |-> None,
     picked |-> None, useSess |-> None, dbSession |-> None,
     rlmLocked |-> FALSE, scoped |-> FALSE, cm |-> FALSE, exc |-> FALSE,
     decision |-> "none", extra |-> FALSE, err |-> FALSE, floodN |-> 0,
     ranges |-> << >>, ri |-> 0, pos |-> 0, counter |-> 0, meta |-> NoMeta,
     finished |-> 0, sent |-> {}, txRows |-> {}, prevRows |-> {},
     committed |-> FALSE, timeout |-> NoTimeout, waited |-> 0,
     refused |-> None]

\* a delivery of the bus message reaches the handler
Delivery(kind, chan, n, nd, prevRows) ==
    [IdleTask EXCEPT !.kind = kind, !.chan = chan, !.pc = "start",
                     !.n = n, !.nd = nd, !.prevRows = prevRows]

\* a call of rlm.lock / rlm.unlock that returns to pc ret
Call(t, op, rid, ret) == [t EXCEPT !.pc = op, !.rid = rid, !.ret = ret]

\* an exception that left the scope of session() without the release
Raise_unreleased(t) == [t EXCEPT !.pc = "except", !.scoped = FALSE]

\* an exception is raised: inside "async with rlm.session()" the scope exit
\* unlocks the picked session first
Raise(t) ==
    IF t.scoped
    THEN Call([t EXCEPT !.scoped = FALSE], "unlock_kv", t.picked, "except")
    ELSE [t EXCEPT !.pc = "except"]

\* msg.ack() / msg.nack(): the first decision is the one the bus keeps
Decide(t, d) ==
    IF t.decision = "none" THEN [t EXCEPT !.decision = d]
    ELSE [t EXCEPT !.extra = TRUE]

(***************************************************************************)
(* A new bus message, and the redelivery of a message that was nacked.     *)
(***************************************************************************)
NewTask(w) ==
    /\ w \in active
    /\ \/ tk[w].pc = "idle"
       \/ tk[w].pc = "done" /\ (tk[w].decision = "ack" \/ tk[w].nd >= MaxDeliver)
    /\ tk[w].n < quota[w]
    /\ \E job \in feed[w] :
          tk' = [tk EXCEPT ![w] = Delivery(job[1], job[2], tk[w].n + 1, job[3], {})]
    /\ UNCHANGED <<dbVars, chanVars, leaseVars, active, feed, quota, reqVars>>

Redeliver(w) ==
    /\ tk[w].pc = "done"
    /\ tk[w].decision # "ack"
    /\ tk[w].nd < MaxDeliver
    /\ tk' = [tk EXCEPT ![w] = Delivery(@.kind, @.chan, @.n, @.nd + 1,
                                        @.prevRows \cup @.txRows)]
    /\ UNCHANGED <<dbVars, chanVars, leaseVars, active, feed, quota, reqVars>>

(***************************************************************************)
(* rlm.lock(rid) and rlm.unlock(rid): the KV call, then the local state.   *)
(***************************************************************************)
LockKv(w) ==
    /\ tk[w].pc = "lock_kv"
    /\ LET s == tk[w].rid
       IN IF LockSucceeds(s)
          THEN /\ CanPublish(podName[w])
               /\ LET rev == NewRevision
                  IN Renumbered([kv EXCEPT ![s] = WrittenKey(w, rev)],
                                states,
                                Publish(watch, PutEvent(s, rev), podName[w]),
                                rf,
                                [tk EXCEPT ![w].pc = "lock_local", ![w].ver = rev])
               /\ held' = [held EXCEPT ![w][s] = "live"]
          ELSE /\ tk' = [tk EXCEPT ![w].pc = tk[w].ret, ![w].res = FALSE]
               /\ UNCHANGED <<kv, states, watch, rf, held>>
    /\ UNCHANGED <<podName, current, mutex, fin, active, feed, quota>>
    /\ UNCHANGED <<dbVars, chanVars, reqVars>>

LockLocal(w) ==
    /\ tk[w].pc = "lock_local"
    /\ ~mutex[w]
    /\ states' = [states EXCEPT ![w][tk[w].rid] = LockedState(tk[w].ver)]
    /\ tk' = [tk EXCEPT ![w].pc = tk[w].ret, ![w].res = TRUE, ![w].ver = None]
    /\ UNCHANGED <<kv, watch, podName, current, mutex, rf, fin, held>>
    /\ UNCHANGED <<dbVars, chanVars, active, feed, quota, reqVars>>

UnlockKv(w) ==
    /\ tk[w].pc = "unlock_kv"
    /\ Renumbered([kv EXCEPT ![tk[w].rid] = AbsentKey], states, watch, rf,
                  [tk EXCEPT ![w].pc = "unlock_local"])
    /\ held' = HeldAfterPurge(w, tk[w].rid)
    /\ UNCHANGED <<podName, current, mutex, fin, active, feed, quota>>
    /\ UNCHANGED <<dbVars, chanVars, reqVars>>

UnlockLocal(w) ==
    /\ tk[w].pc = "unlock_local"
    /\ ~mutex[w]
    /\ states' = [states EXCEPT ![w][tk[w].rid] = UnlockedState(@)]
    /\ tk' = [tk EXCEPT ![w].pc = tk[w].ret]
    /\ UNCHANGED <<kv, watch, podName, current, mutex, rf, fin, held>>
    /\ UNCHANGED <<dbVars, chanVars, active, feed, quota, reqVars>>

\* the except clauses around kv.create in lock: KeyValueError and Exception
LockCatches(e) == TRUE

\* the except clause around kv.purge in unlock
UnlockCatches(e) == e = "KeyValueError"

\* kv.create fails with an error of the store: lock logs it and returns False
LockFault(w) ==
    /\ tk[w].pc = "lock_kv"
    /\ \E e \in GatewayErrors :
          tk' = [tk EXCEPT ![w] =
                    IF LockCatches(e)
                    THEN [tk[w] EXCEPT !.pc = tk[w].ret, !.res = FALSE]
                    ELSE [tk[w] EXCEPT !.pc = "gateway_raised"]]
    /\ UNCHANGED <<dbVars, chanVars, leaseVars, active, feed, quota, reqVars>>

\* kv.purge fails with an error of the store: a KeyValueError is logged and
\* unlock goes on to the local state; any other error leaves unlock before it
UnlockFault(w) ==
    /\ tk[w].pc = "unlock_kv"
    /\ \E e \in GatewayErrors :
          tk' = [tk EXCEPT ![w].pc = IF UnlockCatches(e) THEN "unlock_local"
                                     ELSE "gateway_raised"]
    /\ UNCHANGED <<dbVars, chanVars, leaseVars, active, feed, quota, reqVars>>

(***************************************************************************)
(* rlm.session(): pick a locally free id, lock it, make it _current.       *)
(***************************************************************************)
SessPick(w) ==
    /\ tk[w].pc = "sess_pick"
    /\ ~mutex[w]
    /\ \E p \in {s \in Sessions : states[w][s].known /\ ~states[w][s].locked} :
          tk' = [tk EXCEPT ![w] = Call([@ EXCEPT !.picked = p], "lock_kv", p,
                                       "sess_locked")]
    /\ UNCHANGED <<dbVars, chanVars, leaseVars, active, feed, quota, reqVars>>

\* a loop that never looked at the deadline
DeadlinePassed_never(timeout, now) == FALSE

\* "deadline and loop.time() > deadline", the clock counted from the call
DeadlinePassed(timeout, now) == timeout # NoTimeout /\ now > timeout

\* the instants a sleep of one interval that began at now can end at (the
\* clock is only read when a deadline was given)
Wakes(t) ==
    IF t.timeout = NoTimeout THEN {t.waited}
    ELSE {x \in {t.waited + 1, t.waited + 2} : x <= MaxWait}

\* the end of an iteration that did not break: past the deadline TimeoutError
\* is raised and the finally block unlocks picked, the id of the last attempt;
\* otherwise asyncio.sleep(0.5) ends and the loop goes round
AfterAttempt(t) ==
    IF DeadlinePassed(t.timeout, t.waited)
    THEN {IF t.picked # None THEN Call(t, "unlock_kv", t.picked, "timed_out")
          ELSE [t EXCEPT !.pc = "timed_out"]}
    ELSE {[t EXCEPT !.pc = "sess_pick", !.waited = wake] : wake \in Wakes(t)}

\* an iteration that found no id free: the deadline check and the sleep
SessIdle(w) ==
    /\ tk[w].pc = "sess_pick"
    /\ ~mutex[w]
    /\ {s \in Sessions : states[w][s].known /\ ~states[w][s].locked} = {}
    /\ tk[w].timeout # NoTimeout
    /\ \E t \in AfterAttempt(tk[w]) : tk' = [tk EXCEPT ![w] = t]
    /\ UNCHANGED <<dbVars, chanVars, leaseVars, active, feed, quota, reqVars>>

\* the body of "async with rlm.session(timeout)" ends: the generator resumes
\* after the yield and its finally block unlocks picked
ScopeExit(w) ==
    /\ tk[w].pc = "yielded"
    /\ tk' = [tk EXCEPT ![w] = Call([@ EXCEPT !.scoped = FALSE], "unlock_kv",
                                    @.picked, "left")]
    /\ UNCHANGED <<dbVars, chanVars, leaseVars, active, feed, quota, reqVars>>

\* after lock(picked): on success _current is set and the id is yielded.
\* "async with" keeps the generator (scoped); a bare __aenter__() drops it,
\* which leaves its finally block to the finaliser.
SessLocked(w) ==
    /\ tk[w].pc = "sess_locked"
    /\ IF tk[w].res
       THEN /\ ~mutex[w]
            /\ current' = [current EXCEPT ![w] = [rid |-> tk[w].picked,
                                                  orphan |-> FALSE]]
            /\ IF tk[w].kind \in {"RN", "SC"}
               THEN /\ tk' = [tk EXCEPT ![w].pc = IF tk[w].kind = "SC" THEN "yielded"
                                                  ELSE "got_session",
                                        ![w].scoped = TRUE]
                    /\ UNCHANGED fin
               ELSE /\ fin[w].pc = "idle"
                    /\ fin' = [fin EXCEPT ![w] = [pc |-> "armed",
                                                  rid |-> tk[w].picked]]
                    /\ tk' = [tk EXCEPT ![w].pc = "got_session"]
       ELSE /\ \E t \in AfterAttempt(tk[w]) : tk' = [tk EXCEPT ![w] = t]
            /\ UNCHANGED <<current, fin>>
    /\ UNCHANGED <<kv, watch, podName, states, mutex, rf, held>>
    /\ UNCHANGED <<dbVars, chanVars, active, feed, quota, reqVars>>

(***************************************************************************)
(* The handlers, one action per step between two awaits that matter.      *)
(***************************************************************************)
\* the start of the range loop (or of the single pass of a schedule task)
StartRange(t, i) ==
    [t EXCEPT !.pc = "iter", !.ri = i, !.pos = 1, !.counter = 0, !.meta = NoMeta]

\* a log call that read a field the body has
LogsMissingField_never(kind) == FALSE

\* the first log call of the handler reads a field the body does not have:
\* the route of the schedule logs body.from_message_id, and its body is the
\* schema of crawler/schemas/schedule.py (channel_id, last_message_id)
LogsMissingField(kind) == kind = "RS"

\* start of the handler up to the choice of the session: entity lookup,
\* find_subscribed_session, and the call of rlm.lock or rlm.session
Resolve(w) ==
    /\ tk[w].pc = "start"
    /\ LET t == tk[w]
           found == t.chan \in entities
           sub == IF found THEN subscribed(t.chan) ELSE None
       IN tk' = [tk EXCEPT ![w] =
            CASE LogsMissingField(t.kind) -> Raise(t)
              [] t.kind = "PN" ->
                    IF sub = None THEN [t EXCEPT !.pc = "sess_pick"]
                    ELSE Call(t, "lock_kv", sub, "sticky_ret")
              [] t.kind = "RN" ->
                    IF ~found THEN [t EXCEPT !.pc = "sess_pick"]
                    ELSE IF sub = None THEN Raise(t)
                    ELSE Call([t EXCEPT !.dbSession = sub], "lock_kv", sub,
                              "sticky_ret")
              [] t.kind = "PS" ->
                    IF sub = None THEN [Decide(t, "ack") EXCEPT !.pc = "end"]
                    ELSE Call(t, "lock_kv", sub, "sticky_ret")
              [] t.kind = "RS" ->
                    IF sub = None THEN [Decide(t, "ack") EXCEPT !.pc = "finally"]
                    ELSE Call([t EXCEPT !.dbSession = sub], "lock_kv", sub,
                              "sticky_ret")]
    /\ UNCHANGED <<dbVars, chanVars, leaseVars, active, feed, quota, reqVars>>

\* after rlm.lock(subscribed session) returned
StickyRet(w) ==
    /\ tk[w].pc = "sticky_ret"
    /\ LET t == [tk[w] EXCEPT !.refused = IF tk[w].res THEN None ELSE tk[w].rid]
       IN tk' = [tk EXCEPT ![w] =
            CASE t.kind = "PN" ->
                    IF t.res THEN [t EXCEPT !.pc = "open", !.useSess = t.rid]
                    ELSE Raise(t)
              [] t.kind = "RN" ->
                    IF t.res THEN [t EXCEPT !.pc = "open", !.useSess = t.rid,
                                            !.rlmLocked = TRUE]
                    ELSE Raise(t)
              [] t.kind = "PS" ->
                    IF ~t.res /\ t.nd < MaxDeliver
                    THEN [Decide(t, "nack") EXCEPT !.pc = "end"]
                    ELSE [t EXCEPT !.pc = "sess_pick"]
              [] t.kind = "RS" ->
                    IF ~t.res /\ t.nd < MaxDeliver
                    THEN [Decide(t, "nack") EXCEPT !.pc = "finally"]
                    ELSE [t EXCEPT !.pc = "sess_pick"]]
    /\ UNCHANGED <<dbVars, chanVars, leaseVars, active, feed, quota, reqVars>>

\* after rlm.session() yielded: TelegramSession.get(picked)
GotSession(w) ==
    /\ tk[w].pc = "got_session"
    /\ LET t == tk[w]
       IN IF t.picked \in directory
          THEN /\ tk' = [tk EXCEPT ![w] =
                    [t EXCEPT !.pc = "open", !.useSess = t.picked,
                              !.dbSession = IF t.kind \in {"RN", "RS"}
                                            THEN t.picked ELSE @]]
               /\ UNCHANGED <<states, current>>
          ELSE IF t.kind = "PS"
          THEN /\ tk' = [tk EXCEPT ![w] = [Decide(t, "nack") EXCEPT !.pc = "end"]]
               /\ UNCHANGED <<states, current>>
          ELSE IF t.kind = "RS"
          THEN /\ tk' = [tk EXCEPT ![w] =
                    Raise(Decide([t EXCEPT !.dbSession = None], "nack"))]
               /\ UNCHANGED <<states, current>>
          ELSE /\ ~mutex[w]
               /\ states' = [states EXCEPT ![w] = update_resources(@, directory)]
               /\ current' = [current EXCEPT ![w] =
                                 CurrentAfterUpdate(@, states[w], directory)]
               /\ tk' = [tk EXCEPT ![w] =
                    IF t.kind = "RN" THEN Raise(Decide(t, "nack")) ELSE Raise(t)]
    /\ UNCHANGED <<kv, watch, podName, mutex, rf, fin, held>>
    /\ UNCHANGED <<dbVars, chanVars, active, feed, quota, reqVars>>

\* what opening the client and resolving the entity can end in
OpenOutcomes(kind) == IF kind \in {"PS", "RS"} THEN {"ok", "error", "value_error"}
                      ELSE {"ok", "error"}

\* ConnectManager.open, get_entity / get_input_entity and, for a channel that
\* has no entity yet, create_entity and session.commit()
Open(w) ==
    /\ tk[w].pc = "open"
    /\ \E o \in OpenOutcomes(tk[w].kind) :
        LET t == tk[w]
            pool == t.picked # None
        IN /\ entities' = IF o = "ok" /\ pool /\ t.kind \in {"PN", "RN"}
                          THEN entities \cup {t.chan} ELSE entities
           /\ tk' = [tk EXCEPT ![w] =
                CASE o = "ok" /\ t.kind = "PN" ->
                        [t EXCEPT !.pc = "plan", !.cm = TRUE, !.dbSession = t.useSess]
                  [] o = "ok" /\ t.kind = "RN" ->
                        IF t.scoped
                        THEN Call([t EXCEPT !.cm = TRUE, !.scoped = FALSE],
                                  "unlock_kv", t.picked, "plan")
                        ELSE [t EXCEPT !.pc = "plan", !.cm = TRUE]
                  [] o = "ok" /\ t.kind \in {"PS", "RS"} ->
                        StartRange([t EXCEPT !.cm = TRUE,
                                             !.ranges = << <<None, None>> >>], 1)
                  [] o = "error" ->
                        Raise([t EXCEPT !.cm = (t.kind = "RN")])
                  [] o = "value_error" ->
                        [Decide(t, "nack") EXCEPT
                            !.pc = IF t.kind = "RS" THEN "finally" ELSE "end"]]
    /\ UNCHANGED <<table, directory, chanVars, leaseVars, active, feed, quota, reqVars>>

\* find_non_overlapping_ranges(entity, datetime_offset, now) on the rows the
\* session sees, and the branch on an empty list
PlanRanges(w) ==
    /\ tk[w].pc = "plan"
    /\ LET t == tk[w]
           rows == {r \in table \cup t.txRows : r.entity_id = t.chan}
       IN \E q \in SortedBy(check_overlap(rows, reqFrom, reqTo)) :
            LET rg == RangesFromSorted(q, reqFrom, reqTo)
            IN tk' = [tk EXCEPT ![w] =
                 IF rg = << >> THEN [Decide(t, "ack") EXCEPT !.pc = "finally"]
                 ELSE StartRange([t EXCEPT !.ranges = rg], 1)]
    /\ UNCHANGED <<dbVars, chanVars, leaseVars, active, feed, quota, reqVars>>

\* collect_messages hands the next message of the channel to the loop
IterMessage(w) ==
    /\ tk[w].pc = "iter"
    /\ tk[w].pos <= Len(history)
    /\ LET t == tk[w]
           m == history[t.pos]
           c == condition(t.kind, m, t.ranges[t.ri][1], t.ranges[t.ri][2])
       IN /\ tk' = [tk EXCEPT ![w] =
                CASE c = "raise" -> Raise(t)
                  [] c = "stop" -> [t EXCEPT !.pc = "save"]
                  [] c = "go" ->
                        [t EXCEPT !.meta = update_message(@, m.id, m.date),
                                  !.counter = next_counter(@),
                                  !.sent = @ \cup {<<t.ri, m.id>>},
                                  !.pos = @ + 1]]
          /\ outbox' = IF c = "go" THEN outbox \cup {m.id} ELSE outbox
    /\ UNCHANGED <<dbVars, history, lastId, leaseVars, active, feed, quota, reqVars>>

\* the channel has no more messages
IterEnd(w) ==
    /\ tk[w].pc = "iter"
    /\ tk[w].pos > Len(history)
    /\ tk' = [tk EXCEPT ![w].pc = "save"]
    /\ UNCHANGED <<dbVars, chanVars, leaseVars, active, feed, quota, reqVars>>

\* the client raises FloodWaitError while the messages are fetched
IterFlood(w) ==
    /\ tk[w].pc = "iter"
    /\ LET t == tk[w]
       IN tk' = [tk EXCEPT ![w] =
            IF flood_outcome(t.meta) = "sentinel"
            THEN [t EXCEPT !.pc = "save", !.floodN = t.meta.count,
                           !.err = (@ \/ t.decision # "ack")]
            ELSE Raise(t)]
    /\ UNCHANGED <<dbVars, chanVars, leaseVars, active, feed, quota, reqVars>>

\* after the loop: _save_collection_metadata, then the next range or the ack
Save(w) ==
    /\ tk[w].pc = "save"
    /\ LET t == tk[w]
           row == CollectionRow(t.chan, t.meta, t.counter)
           after == [t EXCEPT !.finished = @ + 1]
           next == IF t.kind = "PN" /\ t.ri < Len(t.ranges)
                   THEN StartRange(after, t.ri + 1)
                   ELSE [after EXCEPT !.pc = "ack"]
       IN tk' = [tk EXCEPT ![w] =
            IF ~ShouldSave(t.kind, t.counter, t.meta) THEN next
            ELSE IF ViolatesUnique(table \cup t.txRows, row) THEN Raise(t)
            ELSE [next EXCEPT !.txRows = @ \cup {row}]]
    /\ UNCHANGED <<dbVars, chanVars, leaseVars, active, feed, quota, reqVars>>

\* msg.ack(): at the end of the handler; inside the range loop in the route
Ack(w) ==
    /\ tk[w].pc = "ack"
    /\ LET t == Decide(tk[w], "ack")
       IN tk' = [tk EXCEPT ![w] =
            CASE t.kind = "PN" -> [t EXCEPT !.pc = "finally"]
              [] t.kind = "RN" -> IF t.ri < Len(t.ranges)
                                  THEN StartRange(t, t.ri + 1)
                                  ELSE [t EXCEPT !.pc = "finally"]
              [] t.kind = "PS" -> [t EXCEPT !.pc = "end"]
              [] t.kind = "RS" -> [t EXCEPT !.pc = "finally"]]
    /\ UNCHANGED <<dbVars, chanVars, leaseVars, active, feed, quota, reqVars>>

\* an exception leaves the try block: the routes nack in "except Exception",
\* the procedures have no except clause
Except(w) ==
    /\ tk[w].pc = "except"
    /\ LET t == [tk[w] EXCEPT !.err = (@ \/ tk[w].decision # "ack")]
       IN tk' = [tk EXCEPT ![w] =
            CASE t.kind \in {"RN", "RS"} -> [Decide(t, "nack") EXCEPT !.pc = "finally"]
              [] t.kind = "PN" -> [t EXCEPT !.pc = "finally", !.exc = TRUE]
              [] t.kind = "PS" -> [t EXCEPT !.pc = "end", !.exc = TRUE]]
    /\ UNCHANGED <<dbVars, chanVars, leaseVars, active, feed, quota, reqVars>>

\* a finally block that unlocked the subscribed session it had looked up,
\* whether or not the lock had been taken
FinallyUnlocks_found(t) ==
    CASE t.kind = "PN" -> t.dbSession
      [] t.kind = "RN" -> t.dbSession
      [] t.kind = "RS" -> t.dbSession
      [] OTHER -> None

\* the session the finally block unlocks (None: it unlocks nothing)
FinallyUnlocks(t) ==
    CASE t.kind = "PN" -> t.dbSession
      [] t.kind = "RN" -> IF t.rlmLocked THEN t.dbSession ELSE None
      [] t.kind = "RS" -> t.dbSession
      [] OTHER -> None

\* finally: connect_manager.close() and rlm.unlock
Finally(w) ==
    /\ tk[w].pc = "finally"
    /\ LET t == [tk[w] EXCEPT !.cm = FALSE]
       IN tk' = [tk EXCEPT ![w] =
            IF FinallyUnlocks(t) # None
            THEN Call(t, "unlock_kv", FinallyUnlocks(t), "end")
            ELSE [t EXCEPT !.pc = "end"]]
    /\ UNCHANGED <<dbVars, chanVars, leaseVars, active, feed, quota, reqVars>>

\* the caller of a procedure: it commits when the procedure returns and nacks
\* when it raises
caller_commits(t) == t.kind \in {"PN", "PS"} /\ ~t.exc
caller_nacks(t) == t.kind \in {"PN", "PS"} /\ t.exc

\* the handler is left: the caller's part, then get_session closes the
\* AsyncSession, which rolls back what was not committed
End(w) ==
    /\ tk[w].pc = "end"
    /\ LET t == tk[w]
       IN /\ table' = IF caller_commits(t) THEN table \cup t.txRows ELSE table
          /\ tk' = [tk EXCEPT ![w] =
                [(IF caller_nacks(t) THEN Decide(t, "nack") ELSE t)
                    EXCEPT !.pc = "done", !.cm = FALSE,
                           !.committed = caller_commits(t)]]
    /\ UNCHANGED <<directory, entities, chanVars, leaseVars, active, feed, quota, reqVars>>

(***************************************************************************)
(* Initial states.                                                         *)
(***************************************************************************)
\* the cluster right after the lifespan of every worker started: an empty
\* bucket, the sessions ids of the directory known and free, no _current
QuietLease(ids) ==
    /\ kv = [s \in Sessions |-> AbsentKey]
    /\ watch = [w \in Workers |-> << >>]
    /\ states = [w \in Workers |->
                    [s \in Sessions |-> IF s \in ids THEN FreeState ELSE NoState]]
    /\ current = [w \in Workers |-> [rid |-> None, orphan |-> FALSE]]
    /\ mutex = [w \in Workers |-> FALSE]
    /\ rf = [w \in Workers |-> [pc |-> "sleep", ver |-> None, keys |-> {}]]
    /\ fin = [w \in Workers |-> [pc |-> "idle", rid |-> None]]
    /\ held = [w \in Workers |-> [s \in Sessions |-> "no"]]

NoTasks == tk = [w \in Workers |-> IdleTask]

NoPlannerCall == tieOrder = << >> /\ planned = << >> /\ ppc = "idle"

\* a message of the channel
Msg(id, date) == [id |-> id, date |-> date]

\* the histories of a channel, newest first: ids and dates do not increase
Histories ==
    UNION {{h \in [1..n -> {Msg(i, d) : i \in 1..n, d \in 1..MaxTime}] :
               /\ \A i \in 1..n : h[i].id = n + 1 - i
               /\ \A i \in 1..(n - 1) : h[i].date >= h[i + 1].date}
           : n \in 0..MaxMsgs}

\* the row an earlier task wrote for messages i..j of the history
RunRow(c, h, i, j) ==
    [entity_id |-> c,
     from_message_id |-> h[i].id, to_message_id |-> h[j].id,
     from_datetime |-> h[i].date, to_datetime |-> h[j].date,
     messages_count |-> j - i + 1]

\* the ids a row counts
RowIds(r) == {x \in 1..MaxMsgs : r.to_message_id <= x /\ x <= r.from_message_id}

(***************************************************************************)
(* PlannerSpec: the planner called once on a table content and a request.  *)
(***************************************************************************)
AllRows == {Row(fd, td) : fd \in Times, td \in Times}

PlannerInit ==
    /\ table \in {S \in SUBSET AllRows : Cardinality(S) <= MaxRecords}
    /\ reqFrom \in Times
    /\ reqTo \in Times
    /\ reqFrom <= reqTo
    /\ tieOrder = << >>
    /\ planned = << >>
    /\ ppc = "ready"
    /\ directory = Sessions
    /\ entities = {}
    /\ podName = [w \in Workers |-> "pod"]
    /\ QuietLease(Sessions)
    /\ history = << >>
    /\ lastId = 1
    /\ outbox = {}
    /\ active = {}
    /\ feed = [w \in Workers |-> {}]
    /\ quota = [w \in Workers |-> 0]
    /\ NoTasks

\* one call of find_non_overlapping_ranges(entity, reqFrom, reqTo)
Plan ==
    /\ ppc = "ready"
    /\ \E q \in SortedBy(check_overlap(table, reqFrom, reqTo)) :
           /\ tieOrder' = q
           /\ planned' = RangesFromSorted(q, reqFrom, reqTo)
    /\ ppc' = "done"
    /\ UNCHANGED <<table, directory, entities, reqFrom, reqTo>>
    /\ UNCHANGED <<leaseVars, chanVars, taskVars>>

PlannerNext == Plan

PlannerSpec == PlannerInit /\ [][PlannerNext]_vars

(***************************************************************************)
(* ManagerSpec: the manager of worker w1 in a drawn situation.  It holds   *)
(* session 1, which session() yielded to a backfill task; its local state  *)
(* of session 2, the ids of the sessions table and the watch events still  *)
(* to be handled are drawn.  Worker w2 starts from the same local states   *)
(* and is given nothing to do, so it keeps them for comparison.            *)
(***************************************************************************)
\* the events a watcher can hand to on_kv_event: a put carries no operation
Events ==
    [key : Sessions \cup {None}, operation : {"NONE", "PURGE", "DEL"},
     revision : 1..MaxRevision]

EventSeqs == UNION {[1..n -> Events] : n \in 0..MaxEvents}

\* the local states of a manager that holds session 1 at revision 1
LocalMaps ==
    {[s \in Sessions |-> IF s = 1 THEN LockedState(1) ELSE st] :
        st \in {NoState, FreeState} \cup {LockedState(r) : r \in 1..MaxRevision}}

\* the backfill task session() has just yielded session 1 to
YieldedTask(kind) ==
    [Delivery(kind, 1, 1, 1, {}) EXCEPT !.pc = "got_session", !.picked = 1,
                                        !.rid = 1, !.ret = "sess_locked",
                                        !.res = TRUE, !.scoped = (kind = "RN")]

ManagerInit ==
    /\ table = {}
    /\ directory \in SUBSET Sessions
    /\ entities = {2}
    /\ reqFrom = 0
    /\ reqTo = MaxTime
    /\ NoPlannerCall
    /\ history = << >>
    /\ lastId = 1
    /\ outbox = {}
    /\ podName = [w \in Workers |-> "pod"]
    /\ kv = [s \in Sessions |->
                IF s = 1 THEN [present |-> TRUE, value |-> "pod", revision |-> 1,
                               stale |-> FALSE]
                ELSE AbsentKey]
    /\ states \in {[w \in Workers |-> m] : m \in LocalMaps}
    /\ watch \in {[w \in Workers |-> IF w = "w1" THEN q ELSE << >>] :
                     q \in EventSeqs}
    /\ current = [w \in Workers |->
                     IF w = "w1" THEN [rid |-> 1, orphan |-> FALSE]
                     ELSE [rid |-> None, orphan |-> FALSE]]
    /\ mutex = [w \in Workers |-> FALSE]
    /\ rf = [w \in Workers |-> [pc |-> "sleep", ver |-> None, keys |-> {}]]
    /\ held = [w \in Workers |->
                  [s \in Sessions |-> IF w = "w1" /\ s = 1 THEN "live" ELSE "no"]]
    /\ active = {"w1"}
    /\ feed = [w \in Workers |-> {}]
    /\ quota = [w \in Workers |-> MaxTasks]
    /\ \E kind \in {"PN", "RN"} :
          /\ tk = [w \in Workers |-> IF w = "w1" THEN YieldedTask(kind)
                                      ELSE IdleTask]
          /\ fin = [w \in Workers |->
                       IF w = "w1" /\ kind = "PN" THEN [pc |-> "armed", rid |-> 1]
                       ELSE [pc |-> "idle", rid |-> None]]

ManagerNext == \E w \in Workers : update_keys_task(w) \/ GotSession(w)

ManagerSpec == ManagerInit /\ [][ManagerNext]_vars

(***************************************************************************)
(* SessionSpec: worker w1 enters "async with session(timeout)" once.  The  *)
(* keys other workers hold in the bucket, the local states of w1 and the   *)
(* timeout are drawn; a key nobody refreshes goes stale and expires.  The  *)
(* event loop runs the coroutine: a step of the call that can be taken is  *)
(* taken, and a sleep ends.                                                *)
(***************************************************************************)
\* the local states session() can start from
DrawnStates ==
    [Sessions -> {NoState, FreeState, LockedState(1)}]

\* the call of session(timeout) at the top of its loop
SessionCall(timeout) ==
    [IdleTask EXCEPT !.kind = "SC", !.pc = "sess_pick", !.n = 1,
                     !.timeout = timeout]

SessionInit ==
    /\ table = {}
    /\ directory = Sessions
    /\ entities = {}
    /\ reqFrom = 0
    /\ reqTo = MaxTime
    /\ NoPlannerCall
    /\ history = << >>
    /\ lastId = 1
    /\ outbox = {}
    /\ podName = [w \in Workers |-> IF w = "w1" THEN "pod-1" ELSE "pod-2"]
    /\ \E taken \in SUBSET Sessions :
          /\ kv = [s \in Sessions |->
                      IF s \in taken
                      THEN [present |-> TRUE, value |-> "pod-2", revision |-> 1,
                            stale |-> FALSE]
                      ELSE AbsentKey]
          /\ held = [w \in Workers |-> [s \in Sessions |->
                        IF w = "w2" /\ s \in taken THEN "live" ELSE "no"]]
    /\ \E m \in DrawnStates :
          states = [w \in Workers |-> IF w = "w1" THEN m
                                      ELSE [s \in Sessions |-> FreeState]]
    /\ watch = [w \in Workers |-> << >>]
    /\ current = [w \in Workers |-> [rid |-> None, orphan |-> FALSE]]
    /\ mutex = [w \in Workers |-> FALSE]
    /\ rf = [w \in Workers |-> [pc |-> "sleep", ver |-> None, keys |-> {}]]
    /\ fin = [w \in Workers |-> [pc |-> "idle", rid |-> None]]
    /\ active = {"w1"}
    /\ feed = [w \in Workers |-> {}]
    /\ quota = [w \in Workers |-> 1]
    /\ \E timeout \in {NoTimeout} \cup 0..(MaxWait - 1) :
          tk = [w \in Workers |-> IF w = "w1" THEN SessionCall(timeout)
                                  ELSE IdleTask]

\* the steps of the call and of the scope around the yield
SessionStep(w) ==
    \/ SessPick(w) \/ SessIdle(w) \/ LockKv(w) \/ LockLocal(w) \/ SessLocked(w)
    \/ ScopeExit(w) \/ UnlockKv(w) \/ UnlockLocal(w)

SessionNext ==
    \/ \E w \in Workers : SessionStep(w)
    \/ Tick
    \/ \E s \in Sessions : Expire(s)

SessionSpec ==
    SessionInit /\ [][SessionNext]_vars /\ WF_vars(\E w \in Workers : SessionStep(w))

(***************************************************************************)
(* FaultSpec: the call of SessionSpec with its refresher, against a store  *)
(* whose calls can also fail.                                              *)
(***************************************************************************)
FaultInit == SessionInit

\* a call of the store by worker w fails
Fault(w) == LockFault(w) \/ UnlockFault(w) \/ RefreshFault(w) \/ ReloadFault(w)

FaultNext ==
    \/ \E w \in Workers : SessionStep(w)
    \/ \E w \in Workers : RefreshStart(w) \/ RefreshFinish(w) \/ RefreshFail(w)
                          \/ ReloadBegin(w) \/ ReloadGet(w)
    \/ \E w \in Workers : Fault(w)
    \/ Tick
    \/ \E s \in Sessions : Expire(s)

FaultSpec == FaultInit /\ [][FaultNext]_vars

(***************************************************************************)
(* The steps of a worker.                                                  *)
(***************************************************************************)
\* a bus message arrives and the handler runs, its rlm calls and the
\* finalisation of a dropped session() generator included
Handle(w) ==
    \/ NewTask(w)
    \/ LockKv(w) \/ LockLocal(w) \/ UnlockKv(w) \/ UnlockLocal(w)
    \/ SessPick(w) \/ SessLocked(w)
    \/ Resolve(w) \/ StickyRet(w) \/ GotSession(w) \/ Open(w)
    \/ PlanRanges(w) \/ IterMessage(w) \/ IterEnd(w) \/ IterFlood(w)
    \/ Save(w) \/ Ack(w) \/ Except(w) \/ Finally(w) \/ End(w)
    \/ FinPurge(w) \/ FinLocal(w)

\* a worker of the task consumer: the bus redelivers what was nacked
TaskStep(w) == Handle(w) \/ Redeliver(w)

Housekeeping(w) ==
    \/ update_keys_task(w)
    \/ RefreshStart(w) \/ RefreshFinish(w) \/ RefreshFail(w)
    \/ ReloadBegin(w) \/ ReloadGet(w)

(***************************************************************************)
(* TaskSpec: one worker, the channel and the table drawn, tasks of every   *)
(* kind; the bucket is touched by the tasks only.                          *)
(***************************************************************************)
TaskInit ==
    /\ history \in Histories
    /\ table \in {{}} \cup {{RunRow(2, history, i, j)} :
                               i \in 1..Len(history), j \in 1..Len(history)}
    /\ \A r \in table : r.from_message_id >= r.to_message_id
    /\ outbox = UNION {RowIds(r) : r \in table}
    /\ lastId \in 1..MaxMsgs
    /\ reqFrom \in Times
    /\ reqTo = MaxTime
    /\ NoPlannerCall
    /\ directory \in {Sessions, {1}}
    /\ entities = {2}
    /\ podName = [w \in Workers |-> "pod"]
    /\ QuietLease(Sessions)
    /\ active = {"w1"}
    /\ feed = [w \in Workers |-> Kinds \X Channels \X {1}]
    /\ quota = [w \in Workers |-> MaxTasks]
    /\ NoTasks

TaskNext == \E w \in Workers : TaskStep(w)

TaskSpec == TaskInit /\ [][TaskNext]_vars

(***************************************************************************)
(* StickySpec: worker w1 handles one message of any kind, on its first or  *)
(* on its last delivery, while pod-2 may hold sessions: the keys pod-2     *)
(* wrote and what w1 knows of them are drawn.  pod-2 refreshes nothing, so *)
(* its keys go stale and expire.                                           *)
(***************************************************************************)
StickyInit ==
    /\ history = << Msg(1, 1) >>
    /\ table = {}
    /\ outbox = {}
    /\ lastId = 1
    /\ reqFrom = 0
    /\ reqTo = MaxTime
    /\ NoPlannerCall
    /\ directory = Sessions
    /\ entities = {2}
    /\ podName = [w \in Workers |-> IF w = "w1" THEN "pod-1" ELSE "pod-2"]
    /\ \E taken \in SUBSET Sessions :
          /\ kv = [s \in Sessions |->
                      IF s \in taken
                      THEN [present |-> TRUE, value |-> "pod-2", revision |-> 1,
                            stale |-> FALSE]
                      ELSE AbsentKey]
          /\ held = [w \in Workers |-> [s \in Sessions |->
                        IF w = "w2" /\ s \in taken THEN "live" ELSE "no"]]
          /\ \E seen \in SUBSET taken :
                states = [w \in Workers |-> [s \in Sessions |->
                             IF w = "w1" /\ s \in seen THEN LockedState(1)
                             ELSE FreeState]]
    /\ watch = [w \in Workers |-> << >>]
    /\ current = [w \in Workers |-> [rid |-> None, orphan |-> FALSE]]
    /\ mutex = [w \in Workers |-> FALSE]
    /\ rf = [w \in Workers |-> [pc |-> "sleep", ver |-> None, keys |-> {}]]
    /\ fin = [w \in Workers |-> [pc |-> "idle", rid |-> None]]
    /\ active = {"w1"}
    /\ feed = [w \in Workers |-> Kinds \X Channels \X {1, MaxDeliver}]
    /\ quota = [w \in Workers |-> MaxTasks]
    /\ NoTasks

StickyNext ==
    \/ \E w \in Workers : TaskStep(w)
    \/ Tick
    \/ \E s \in Sessions : Expire(s)

StickySpec == StickyInit /\ [][StickyNext]_vars

(***************************************************************************)
(* Spec: the cluster.  Each worker is given one backfill message on its    *)
(* last delivery: w1 for a channel that has no entity yet (a session of    *)
(* the pool), w2 for a channel mapped to session 1.  Refresher, watch      *)
(* events and the TTL of the bucket run alongside.                         *)
(***************************************************************************)
Init ==
    /\ history = << Msg(1, 1) >>
    /\ table = {}
    /\ outbox = {}
    /\ lastId = 1
    /\ reqFrom = 0
    /\ reqTo = MaxTime
    /\ NoPlannerCall
    /\ directory = {1}
    /\ entities = {2}
    /\ podName = [w \in Workers |-> IF w = "w1" THEN APP_NAME ELSE "pod-2"]
    /\ QuietLease(directory)
    /\ active = Workers
    /\ feed = [w \in Workers |-> IF w = "w1" THEN {<<"PN", 1, MaxDeliver>>}
                                   ELSE {<<"PN", 2, MaxDeliver>>}]
    /\ quota = [w \in Workers |-> MaxTasks]
    /\ NoTasks

Next ==
    \/ \E w \in Workers : Handle(w) \/ Housekeeping(w)
    \/ Tick
    \/ \E s \in Sessions : Expire(s)

Spec == Init /\ [][Next]_vars

(***************************************************************************)
(* Properties of the planner.                                              *)
(***************************************************************************)
\* the unit segments [k, k+1] that lie inside [a, b]
Segs(a, b) == {k \in 0..(MaxTime - 1) : a <= k /\ k + 1 <= b}

\* the segments covered by the returned list
PlannedSegs == UNION {Segs(planned[i][1], planned[i][2]) : i \in 1..Len(planned)}

\* the segments covered by the rows, clipped to the request window
RowSegs == UNION {Segs(r.from_datetime, r.to_datetime) \cap Segs(reqFrom, reqTo) : r \in table}

\* C4: planner disjointness. For a request with from <= to and any rows of the
\* table, every returned interval lies inside [from, to] and no two returned
\* intervals share a segment of time.
C4_PlannerDisjoint ==
    ppc = "done" =>
        /\ \A i \in 1..Len(planned) :
               /\ reqFrom <= planned[i][1]
               /\ planned[i][1] <= planned[i][2]
               /\ planned[i][2] <= reqTo
        /\ \A i, j \in 1..Len(planned) :
               i # j => Segs(planned[i][1], planned[i][2])
                            \cap Segs(planned[j][1], planned[j][2]) = {}

\* C5: planner coverage. The returned intervals together with the rows clipped
\* to [from, to] cover the whole window, and no returned interval overlaps a row.
C5_PlannerCoverage ==
    ppc = "done" =>
        /\ PlannedSegs \cup RowSegs = Segs(reqFrom, reqTo)
        /\ PlannedSegs \cap RowSegs = {}

(***************************************************************************)
(* Properties of the lease layer (Spec).                                   *)
(***************************************************************************)
\* the workers whose local state shows s locked at the revision the key has
MirrorsOf(s) ==
    {w \in Workers : /\ kv[s].present
                     /\ states[w][s].locked
                     /\ states[w][s].version = kv[s].revision}

\* the workers whose successful lock of s has not ended by their own unlock
\* nor by the TTL of the key
HoldersOf(s) == {w \in Workers : held[w][s] \in {"live", "stolen"}}

\* C1 as stated: mutual exclusion read off the local states. For every
\* session s at most one worker has local_state[s].locked with a version equal
\* to the current revision of the key of s.
C1_MutualExclusionLocal ==
    \A s \in Sessions : Cardinality(MirrorsOf(s)) <= 1

\* C1: mutual exclusion of the lease itself. For every session s at most one
\* worker holds a lease on s that it acquired with lock() and that is still the
\* live key of the bucket, and while such a lease exists the key is present;
\* the local states of the other workers may mirror the same revision.
C1_MutualExclusion ==
    \A s \in Sessions :
        /\ Cardinality({w \in Workers : held[w][s] = "live"}) <= 1
        /\ (\E w \in Workers : held[w][s] = "live") => kv[s].present

\* a worker holds the live lease on a session and the lock() of another worker
\* on the same session has just returned False
C1_Witness ==
    \E w, v \in Workers, s \in Sessions :
        /\ w # v
        /\ held[w][s] = "live"
        /\ tk[v].pc \in {"sticky_ret", "sess_locked"}
        /\ tk[v].rid = s
        /\ ~tk[v].res

\* C2: lease CAS. For every session s at most one lock(s) has returned True
\* since the key was last released by its holder or expired, and as long as
\* that lease has neither been released by its holder nor expired, lock(s)
\* returns False to every worker.
C2_LeaseCAS ==
    \A s \in Sessions :
        /\ Cardinality(HoldersOf(s)) <= 1
        /\ HoldersOf(s) # {} => ~LockSucceeds(s)
(***************************************************************************)
(* Properties of the handlers (TaskSpec).                                  *)
(***************************************************************************)
\* worker w purges the key of session s in this step: the KV call of unlock,
\* made by the handler or by the finalisation of a session() generator
Purges(w, s) ==
    \/ tk[w].pc = "unlock_kv" /\ tk[w].rid = s /\ tk'[w].pc = "unlock_local"
    \/ fin[w].pc = "armed" /\ fin[w].rid = s /\ fin'[w].pc = "local"

\* C3: lease release. A lock that returned True is released exactly once:
\* every purge a worker issues for a session ends a lease that this worker
\* holds at that moment, so no lease is released a second time.
C3_ReleaseOnce ==
    [][\A w \in Workers, s \in Sessions : Purges(w, s) => held[w][s] = "live"]_vars

\* the ids of the messages the delivery emitted in its sub-range i
EmittedIn(t, i) == {x[2] : x \in {y \in t.sent : y[1] = i}}

\* r is the row of a sub-range of channel c in which the ids were emitted
\* (newest first: the first id is the largest)
RecordOf(r, c, ids) ==
    /\ r.entity_id = c
    /\ \A x \in ids : r.to_message_id <= x /\ x <= r.from_message_id
    /\ r.from_message_id \in ids
    /\ r.to_message_id \in ids

\* C6: collection-record atomicity. While a delivery runs, for each sub-range
\* it has finished the transaction holds a record of that sub-range if and
\* only if at least one message was emitted for it, the messages_count of the
\* record is the number of messages emitted, and there is no other record.
C6_RecordIffEmitted ==
    \A w \in Workers :
        LET t == tk[w]
            done == {i \in 1..t.finished : EmittedIn(t, i) # {}}
        IN t.pc \notin {"idle", "done"} =>
              /\ \A i \in done :
                    \E r \in t.txRows :
                        /\ RecordOf(r, t.chan, EmittedIn(t, i))
                        /\ r.messages_count = Cardinality(EmittedIn(t, i))
              /\ \A r \in t.txRows :
                    \E i \in done :
                        /\ RecordOf(r, t.chan, EmittedIn(t, i))
                        /\ r.messages_count = Cardinality(EmittedIn(t, i))

\* a running delivery has finished a sub-range in which it emitted messages
\* and holds the record of it
C6_Witness ==
    \E w \in Workers :
        /\ tk[w].pc \notin {"idle", "done"}
        /\ tk[w].finished >= 1
        /\ EmittedIn(tk[w], 1) # {}
        /\ tk[w].txRows # {}

C8_FloodNacks ==
    \A w \in Workers :
        (tk[w].pc = "done" /\ tk[w].floodN > 0) =>
            /\ \E r \in tk[w].txRows : r.messages_count = tk[w].floodN
            /\ tk[w].decision = "nack"

\* the instants a record covers (its datetimes in either order)
CoveredSegs(r) ==
    IF r.from_datetime <= r.to_datetime
    THEN Segs(r.from_datetime, r.to_datetime)
    ELSE Segs(r.to_datetime, r.from_datetime)

\* C9: redelivery excludes the covered range. In a redelivery of a message
\* whose earlier deliveries wrote collection records, no planned range
\* contains an instant such a record covers and no message such a record
\* counts is emitted again.
C9_RedeliveryExcludes ==
    \A w \in Workers :
        LET t == tk[w]
        IN t.nd > 1 =>
              \A r \in t.prevRows :
                  /\ \A i \in 1..Len(t.ranges) :
                        Segs(t.ranges[i][1], t.ranges[i][2]) \cap CoveredSegs(r) = {}
                  /\ \A x \in t.sent : x[2] \notin RowIds(r)

\* C10: errors nack. A delivery in which an error was raised before the bus
\* message was acked ends with the message nacked: it is neither acked nor
\* left without ack or nack.
C10_ErrorNacks ==
    \A w \in Workers :
        (tk[w].pc = "done" /\ tk[w].err) => tk[w].decision = "nack"

InSessionCall(t) ==
    t.pc \in {"sess_pick", "lock_kv", "lock_local", "sess_locked",
              "unlock_kv", "unlock_local"}

\* C20: scoped acquire. Inside "async with rlm.session()" the id that was
\* yielded is a known id whose lock() by this worker returned True; in a
\* worker that took no session before, it holds the lease of that id, written
\* with its instance id, and shows it locked. Once the scope is left,
\* normally or by an exception, and unlock has returned, the key is absent
\* and the worker neither holds the lease nor shows the id locked; a worker
\* that took no session before shows no session locked when the task has
\* ended.
C20_ScopedAcquire ==
    \A w \in Workers :
        LET t == tk[w]
        IN /\ t.scoped =>
                 /\ t.picked # None
                 /\ t.res
                 /\ t.rid = t.picked
                 /\ states[w][t.picked].known
                 /\ t.n = 1 =>
                       /\ states[w][t.picked].locked
                       /\ held[w][t.picked] = "live"
                       /\ kv[t.picked].present
                       /\ kv[t.picked].value = podName[w]
           /\ (t.kind = "RN" /\ t.picked # None /\ ~t.scoped /\ ~InSessionCall(t)) =>
                 /\ held[w][t.picked] = "no"
                 /\ ~states[w][t.picked].locked
                 /\ ~kv[t.picked].present
           /\ (t.kind = "RN" /\ t.picked # None /\ t.pc = "done" /\ t.n = 1) =>
                 \A s \in Sessions : ~states[w][s].locked

\* a task that took its session with "async with rlm.session()" has ended
\* after an exception left the scope: the session was yielded and released
C20_Witness ==
    \E w \in Workers :
        /\ tk[w].kind = "RN"
        /\ tk[w].pc = "done"
        /\ tk[w].picked # None
        /\ tk[w].decision = "nack"
        /\ held[w][tk[w].picked] = "no"
        /\ \A s \in Sessions : ~states[w][s].locked
(***************************************************************************)
(* Contracts of the operations of ResourceLockManager (Spec).              *)
(***************************************************************************)
\* worker w is in lock(s) and this step is its kv.create
Creates(w, s) ==
    /\ tk[w].pc = "lock_kv"
    /\ tk[w].rid = s
    /\ tk'[w].pc # "lock_kv"

\* lock(s) of worker w returns in this step after its kv.create succeeded
LockReturnsAfterCreate(w, s) ==
    /\ tk[w].pc = "lock_local"
    /\ tk[w].rid = s
    /\ tk'[w].pc # "lock_local"

\* C12: acquire success. When the kv.create of lock(s) succeeds, the key
\* holds the instance id of the worker at the revision r that create returned,
\* and when lock(s) then returns it returns True and the worker's local state
\* of s is locked with version r.
C12_AcquireSuccess ==
    [][\A w \in Workers, s \in Sessions :
          /\ (Creates(w, s) /\ tk'[w].pc = "lock_local") =>
                /\ kv'[s].present
                /\ kv'[s].value = podName[w]
                /\ kv'[s].revision = tk'[w].ver
                /\ tk'[w].ver # None
          /\ LockReturnsAfterCreate(w, s) =>
                /\ tk'[w].pc = tk[w].ret
                /\ tk'[w].res
                /\ states'[w][s].known
                /\ states'[w][s].locked
                /\ states'[w][s].version = tk[w].ver
                /\ tk[w].ver # None]_vars

\* a lock() has returned True and the local state of the session is locked at
\* the revision of the key the worker created
C12_Witness ==
    \E w \in Workers, s \in Sessions :
        /\ tk[w].pc \in {"sticky_ret", "sess_locked"}
        /\ tk[w].rid = s
        /\ tk[w].res
        /\ kv[s].present
        /\ kv[s].value = podName[w]
        /\ states[w][s].locked
        /\ states[w][s].version = kv[s].revision

\* C13: acquire failure. When the key of s is present, the kv.create of
\* lock(s) fails: lock returns False, and neither the local states of the
\* caller nor the bucket change.
C13_AcquireFailure ==
    [][\A w \in Workers, s \in Sessions :
          (Creates(w, s) /\ kv[s].present) =>
              /\ tk'[w].pc = tk[w].ret
              /\ ~tk'[w].res
              /\ states'[w] = states[w]
              /\ kv' = kv
              /\ held' = held]_vars

\* a lock() has returned False on a key that is present, and the session,
\* which was locally free, is still free in the caller's local state
C13_Witness ==
    \E w \in Workers, s \in Sessions :
        /\ tk[w].pc \in {"sticky_ret", "sess_locked"}
        /\ tk[w].rid = s
        /\ ~tk[w].res
        /\ kv[s].present
        /\ kv[s].value # podName[w]
        /\ states[w][s] = FreeState

\* unlock(s) of worker w, called by a handler or by the finalisation of a
\* session() generator, returns in this step
UnlockReturns(w, s) ==
    \/ tk[w].pc = "unlock_local" /\ tk[w].rid = s /\ tk'[w].pc # "unlock_local"
    \/ fin[w].pc = "local" /\ fin[w].rid = s /\ fin'[w].pc # "local"

\* what a key holds, the revision left aside
KeyContent(k) == <<k.present, k.value, k.stale>>

\* C14: release is idempotent. The kv.purge of unlock(s) leaves the key of s
\* absent and the other keys as they were, and unlock(s) returns with the
\* local state of s free; on a key that is already absent the purge changes
\* nothing in the bucket, and on a local state that is already free the local
\* part changes nothing, so a second unlock(s) leaves both as the first did.
C14_ReleaseIdempotent ==
    [][\A w \in Workers, s \in Sessions :
          /\ Purges(w, s) =>
                /\ kv'[s] = AbsentKey
                /\ \A x \in Sessions \ {s} : KeyContent(kv'[x]) = KeyContent(kv[x])
                /\ ~kv[s].present => KeyContent(kv'[s]) = KeyContent(kv[s])
          /\ UnlockReturns(w, s) =>
                /\ states[w][s].known =>
                      (~states'[w][s].locked /\ states'[w][s].version = None
                          /\ states'[w][s].known)
                /\ (~states[w][s].locked /\ states[w][s].version = None)
                      => states' = states
                /\ \A x \in Sessions \ {s} : states'[w][x] = states[w][x]
                /\ kv' = kv]_vars

\* a second unlock of the same session by the same worker has purged the key
\* again and is about to return: the generator of session() was finalised
\* first, the finally block of the handler unlocks the picked session again
C14_Witness ==
    \E w \in Workers :
        /\ tk[w].pc = "unlock_local"
        /\ tk[w].ret = "end"
        /\ tk[w].picked # None
        /\ tk[w].rid = tk[w].picked
        /\ fin[w].pc = "idle"
        /\ ~kv[tk[w].rid].present
        /\ states[w][tk[w].rid] = FreeState

\* refresh() of worker w, in this step its kv.update on the key of s succeeds
UpdateSucceeds(w, s) ==
    /\ rf[w].pc = "sleep"
    /\ rf'[w].pc = "updated"
    /\ current[w].rid = s

\* refresh() of worker w returns in this step after its kv.update succeeded
RefreshReturns(w, s) ==
    /\ rf[w].pc = "updated"
    /\ rf'[w].pc = "sleep"
    /\ current[w].rid = s

\* worker w holds the lease on s: its lock(s) has returned True and the key
\* has since neither been purged nor expired
HoldsLease(w, s) ==
    /\ held[w][s] = "live"
    /\ ~(tk[w].pc = "lock_local" /\ tk[w].rid = s)

\* C15: refresh success. The kv.update of refresh() succeeds only on a key
\* whose revision is the local version v of the current session, and writes
\* the instance id of the worker at a new revision; when refresh() then
\* returns, the local version of that session is the new revision, and
\* refresh() has changed nothing else: the locked flag of the session is as
\* it was, so a locked session stays locked, and no other local state has
\* changed.
C15_RefreshSuccess ==
    [][\A w \in Workers, s \in Sessions :
          /\ UpdateSucceeds(w, s) =>
                /\ kv[s].present
                /\ states[w][s].version # None
                /\ kv[s].revision = states[w][s].version
                /\ kv'[s].present
                /\ kv'[s].value = podName[w]
                /\ kv'[s].revision = rf'[w].ver
                /\ \A v \in Workers, x \in Sessions :
                      states'[v][x].locked = states[v][x].locked
          /\ RefreshReturns(w, s) =>
                /\ states'[w][s].version = rf[w].ver
                /\ states'[w][s].locked = states[w][s].locked
                /\ states'[w][s].known = states[w][s].known
                /\ \A x \in Sessions \ {s} : states'[w][x] = states[w][x]
                /\ \A v \in Workers \ {w} : states'[v] = states[v]]_vars

\* a refresh of a held lease has returned: the key holds the instance id of
\* the worker, the local state is locked at the revision of the key, and
\* another worker still mirrors the revision the key had before
C15_Witness ==
    \E w \in Workers, s \in Sessions :
        /\ HoldsLease(w, s)
        /\ current[w].rid = s
        /\ rf[w].pc = "sleep"
        /\ kv[s].present
        /\ kv[s].value = podName[w]
        /\ states[w][s].locked
        /\ states[w][s].version = kv[s].revision
        /\ \E v \in Workers \ {w} :
              /\ states[v][s].locked
              /\ states[v][s].version # None
              /\ states[v][s].version < kv[s].revision

\* a local state that shows the session free
IsFree(st) == ~st.locked /\ st.version = None

\* C16: refresh on sequence mismatch reloads. The reload a refresh starts
\* sets the local states as a fresh list+get does: when the list is taken,
\* every known session becomes free, all of them staying free when the bucket
\* holds no key at all; each listed key that get still finds is then set
\* locked at the revision of the key, and nothing else changes.
C16_ReloadReflectsKV ==
    [][\A w \in Workers :
          /\ (rf[w].pc = "reload" /\ rf'[w].pc # "reload") =>
                \A s \in Sessions :
                    states[w][s].known => (states'[w][s].known /\ IsFree(states'[w][s]))
          /\ (rf[w].pc = "gets" /\ rf'[w] # rf[w]) =>
                \E k \in rf[w].keys :
                    /\ kv[k].present =>
                          /\ states'[w][k].locked
                          /\ states'[w][k].version = kv[k].revision
                    /\ \A x \in Sessions \ {k} : states'[w][x] = states[w][x]]_vars


\* C17: refresh on not-found frees. When the kv.update of refresh() fails
\* because the key is absent, refresh() returns with the local state of the
\* current session free, whether the failure is reported as a KeyValueError
\* or as a sequence mismatch that finds the bucket without that key.
C17_NotFoundFrees ==
    [][\A w \in Workers :
          /\ (rf[w].pc = "failed" /\ rf'[w].pc = "sleep") =>
                IsFree(states'[w][current[w].rid])
          /\ (rf[w].pc = "reload" /\ rf'[w].pc = "sleep"
                  /\ ~kv[current[w].rid].present) =>
                IsFree(states'[w][current[w].rid])]_vars

\* C40: local state well-formedness. In every reachable state of a worker's
\* manager each known session is locked if and only if it has a version.
C40_StateWellFormed ==
    \A w \in Workers : \A s \in Sessions :
        states[w][s].known => (states[w][s].locked <=> states[w][s].version # None)
(***************************************************************************)
(* Contracts of on_kv_event and update_resources (ManagerSpec).            *)
(***************************************************************************)
\* worker w hands the watch event at the head of its queue to on_kv_event
Handles(w) == Len(watch[w]) > 0 /\ watch'[w] = Tail(watch[w])

\* C18: watch events update the cache. For every watch event handed to
\* on_kv_event whose key is under the prefix of the manager, the local state
\* of the session of the key becomes locked at the revision of the event when
\* the event is a put and free when it is a purge, and no other local state
\* changes; an event on a key outside the prefix changes nothing.
C18_WatchUpdatesCache ==
    [][\A w \in Workers :
          Handles(w) =>
              LET ev == Head(watch[w])
              IN IF ev.key \notin Sessions THEN states' = states
                 ELSE /\ ev.operation = "NONE" =>
                            /\ states'[w][ev.key].known
                            /\ states'[w][ev.key].locked
                            /\ states'[w][ev.key].version = ev.revision
                      /\ ev.operation = "PURGE" =>
                            /\ states'[w][ev.key].known
                            /\ ~states'[w][ev.key].locked
                            /\ states'[w][ev.key].version = None
                      /\ \A x \in Sessions \ {ev.key} :
                            states'[w][x] = states[w][x]
                      /\ \A v \in Workers \ {w} : states'[v] = states[v]]_vars

\* the manager has handled its events, among them a removal of the key of
\* session 1, which it showed locked, and a put on the key of session 2,
\* which it showed free: it now shows session 1 free and session 2 locked
C18_Witness ==
    /\ watch["w1"] = << >>
    /\ states["w2"][1].locked
    /\ states["w2"][2] = FreeState
    /\ states["w1"][1] = FreeState
    /\ states["w1"][2].locked
    /\ states["w1"][2].version = MaxRevision

\* the handler of worker w calls rlm.update_resources(ids of the sessions
\* table) in this step: session() yielded an id the table does not hold
Reconciles(w) ==
    /\ tk[w].pc = "got_session"
    /\ tk'[w].pc # "got_session"
    /\ tk[w].kind \in {"PN", "RN"}
    /\ tk[w].picked \notin directory

\* C19: update_resources reconciles without dropping held leases. After
\* update_resources(new_ids) every id of new_ids is known, the newly added
\* ones free; a known id that is not in new_ids is removed if and only if it
\* was locally free; every id that was known and stays known, every locally
\* locked id among them, keeps its locked flag and its version.
C19_UpdateResources ==
    [][\A w \in Workers :
          Reconciles(w) =>
              \A s \in Sessions :
                  LET old == states[w][s]
                      new == states'[w][s]
                  IN /\ s \in directory => new.known
                     /\ (s \in directory /\ ~old.known) =>
                            (~new.locked /\ new.version = None)
                     /\ (old.known /\ s \notin directory) =>
                            (~new.known <=> ~old.locked)
                     /\ (~old.known /\ s \notin directory) => ~new.known
                     /\ old.locked => new = old
                     /\ (old.known /\ new.known) => new = old]_vars

\* update_resources has run on a manager that showed session 1 locked and
\* session 2 free, neither of them in the sessions table: session 1 is still
\* known and locked at its revision, session 2 is no longer known
C19_Witness ==
    /\ directory = {}
    /\ tk["w1"].pc \in {"except", "unlock_kv"}
    /\ states["w2"][2] = FreeState
    /\ ~states["w1"][2].known
    /\ states["w1"][1] = LockedState(1)
(***************************************************************************)
(* Properties of session(timeout).                                         *)
(***************************************************************************)
\* the call of session(timeout) is in its loop: it neither yielded nor failed
InLoop(t) ==
    /\ t.kind = "SC"
    /\ t.pc \in {"sess_pick", "lock_kv", "lock_local", "sess_locked"}

\* TimeoutError was raised: the finally block runs, or the error reached the caller
Expired(t) ==
    /\ t.kind = "SC"
    /\ \/ t.pc = "timed_out"
       \/ t.pc \in {"unlock_kv", "unlock_local"} /\ t.ret = "timed_out"

\* every session worker w knows is held by another worker (none known: vacuous)
AllHeldByOthers(w) ==
    \A s \in Sessions :
        states[w][s].known => kv[s].present /\ kv[s].value # podName[w]

\* C21: session(timeout) called with a deadline does not wait forever: it
\* leaves its loop, by yielding or by failing with timeout; it fails with
\* timeout only past the deadline; and its create succeeds only on a session
\* no other worker holds, so while every known session stays held by others
\* (or none is known) it ends by failing with timeout.  Between two attempts
\* it sleeps one bounded interval.
C21_SessionTimeout ==
    /\ [](\A w \in Workers :
            Expired(tk[w]) => tk[w].timeout # NoTimeout /\ tk[w].waited > tk[w].timeout)
    /\ [][\A w \in Workers :
            (InLoop(tk[w]) /\ tk'[w].pc = "lock_local") => ~AllHeldByOthers(w)]_vars
    /\ [][\A w \in Workers :
            (InLoop(tk[w]) /\ tk'[w].waited # tk[w].waited)
                => /\ tk[w].waited < tk'[w].waited
                   /\ tk'[w].waited <= tk[w].waited + 2
                   /\ tk'[w].pc = "sess_pick"]_vars
    /\ \A w \in Workers :
          (InLoop(tk[w]) /\ tk[w].timeout # NoTimeout)
              ~> (Expired(tk[w]) \/ tk[w].pc = "yielded")

\* session(timeout) failed with timeout after at least one retry, its last
\* attempt refused, while every session it knows is held by another worker
C21_Witness ==
    /\ Expired(tk["w1"])
    /\ tk["w1"].pc = "unlock_kv"
    /\ tk["w1"].picked # None
    /\ tk["w1"].timeout >= 1
    /\ \E s \in Sessions : states["w1"][s].known
    /\ AllHeldByOthers("w1")

\* the call of session() of worker w purges the key of its picked session in
\* this step (kv.purge inside the unlock of its finally block)
SessionPurges(w) ==
    /\ tk[w].kind = "SC"
    /\ tk[w].pc = "unlock_kv"
    /\ tk'[w].pc = "unlock_local"

\* C35: no foreign purge on scoped acquire. session() purges the key of a
\* session only if its own lock of that session returned True: a purge by
\* session() is of the session whose lock succeeded, and it never removes a
\* key that holds the instance id of another worker.
C35_NoForeignPurge ==
    [][\A w \in Workers :
          SessionPurges(w) =>
              /\ tk[w].res
              /\ kv[tk[w].rid].present => kv[tk[w].rid].value = podName[w]]_vars
(***************************************************************************)
(* Properties of the manager against a failing store.                      *)
(***************************************************************************)
\* a call of the store by worker w failed in this step
Faulted(w) ==
    \/ tk[w].pc = "lock_kv" /\ tk'[w].pc # "lock_kv" /\ kv' = kv /\ kv[tk[w].rid].present = FALSE
    \/ tk[w].pc = "unlock_kv" /\ tk'[w].pc # "unlock_kv" /\ kv' = kv /\ kv[tk[w].rid].present
    \/ rf[w].pc = "sleep" /\ rf'[w].pc \in {"failed", "dead"}
           /\ "ok" \in UpdateOutcomes(current[w].rid, CurrentVersion(w))

\* an error of the store left the manager: it reached the caller of unlock
\* (or of lock), or ended the refresher
Propagated(w) == tk[w].pc = "gateway_raised" \/ rf[w].pc = "dead"

\* C22: an error of the store other than already-exists, sequence-mismatch
\* and not-found makes lock return False, leaves the local states as they
\* were when it hits refresh, is logged by unlock, which goes on to free the
\* local state, and never leaves lock, unlock, refresh or reload
C22_GatewayTolerance ==
    /\ [](\A w \in Workers : ~Propagated(w))
    /\ [][\A w \in Workers :
            Faulted(w) =>
                /\ tk[w].pc = "lock_kv" => tk'[w].pc = tk[w].ret /\ ~tk'[w].res
                /\ tk[w].pc = "unlock_kv" => tk'[w].pc = "unlock_local"
                /\ states' = states /\ current' = current]_vars
(***************************************************************************)
(* Properties of the refresher and of a lease that was lost.               *)
(***************************************************************************)
\* the task of worker w is at work with session s: the client is being
\* opened or the messages are being collected
TaskUses(w, s) ==
    /\ tk[w].useSess = s
    /\ tk[w].pc \in {"open", "plan", "iter", "save", "ack"}

\* what a tick of the refresher of worker w does for session s: refresh()
\* calls kv.update on the key of s with the local version of s as "last"
RefresherCovers(w, s) ==
    /\ current[w].rid = s
    /\ ~current[w].orphan
    /\ CurrentVersion(w) # None
    /\ CurrentVersion(w) = states[w][s].version

\* C23: whenever the task of a worker is at work with a session whose lease
\* the worker holds, taken by session() or by lock() of the subscribed
\* session, a tick of its refresher issues the update for the key of that
\* session, expecting the locally recorded revision
C23_RefresherCoversLease ==
    \A w \in Workers : \A s \in Sessions :
        (TaskUses(w, s) /\ held[w][s] = "live" /\ states[w][s].locked)
            => RefresherCovers(w, s)

\* the task of worker w acknowledges its message in this step
Acks(w) == tk[w].decision = "none" /\ tk'[w].decision = "ack"

\* worker w has not released the session of its task itself: the finally
\* block of the handler comes after the ack, and the dropped generator of
\* session(), if there is one, has not been finalised
NotReleasedBy(w) == tk[w].picked = None \/ fin[w].pc = "armed"

\* C24: a task whose lease was lost (it expired and another worker acquired
\* the session) does not acknowledge its message: no task that worked with
\* session s and did not release it acks while another worker holds the
\* lease of s
C24_LostLeaseDetected ==
    [][\A w \in Workers : \A s \in Sessions :
          (Acks(w) /\ tk[w].useSess = s /\ NotReleasedBy(w))
              => \A v \in Workers \ {w} : held[v][s] # "live"]_vars

\* the kv.update of refresh() of worker w succeeds in this step: the key of
\* its current session is written with the instance id of w
RefreshWrites(w) == rf[w].pc = "sleep" /\ rf'[w].pc = "updated"

\* worker w released session s after it acquired it, or lost the key to the
\* TTL, and has not acquired it since
NotHolder(w, s) == held[w][s] # "live"

\* C36: refresh never hijacks a lease. The update of refresh() writes the key
\* of a session only while the worker holds the lease of that session: it
\* acquired it and has neither released nor lost it since, and the key
\* carries its own instance id.
C36_RefreshNoHijack ==
    [][\A w \in Workers :
          RefreshWrites(w) =>
              /\ ~NotHolder(w, current[w].rid)
              /\ kv[current[w].rid].value = podName[w]]_vars
(***************************************************************************)
(* Boundary cases of the planner, and the rows the executors write.        *)
(***************************************************************************)
\* the earliest and the latest instant of a row
Lo(r) == IF r.from_datetime <= r.to_datetime THEN r.from_datetime ELSE r.to_datetime
Hi(r) == IF r.from_datetime <= r.to_datetime THEN r.to_datetime ELSE r.from_datetime

\* the row and the window [f, t] have an instant in common
Intersects(r, f, t) == Lo(r) <= t /\ f <= Hi(r)

\* the segments the rows span
SpanSegs == UNION {Segs(Lo(r), Hi(r)) : r \in table}

\* C25: boundary cases of the planner.  With no row intersecting the window
\* the result is the window itself; with a single row containing the window
\* it is empty; otherwise it lists, in ascending order, exactly the gaps
\* before, between and after the rows inside the window.
C25_PlannerBoundary ==
    ppc = "done" =>
        /\ (\A r \in table : ~Intersects(r, reqFrom, reqTo))
               => planned = << <<reqFrom, reqTo>> >>
        /\ (\E r \in table : /\ table = {r}
                             /\ r.from_datetime <= reqFrom
                             /\ reqTo <= r.to_datetime)
               => planned = << >>
        /\ (\E r \in table : Intersects(r, reqFrom, reqTo))
               => /\ \A i \in 1..Len(planned) :
                        /\ planned[i][1] < planned[i][2]
                        /\ planned[i][1] \in {reqFrom} \cup {Hi(r) : r \in table}
                        /\ planned[i][2] \in {reqTo} \cup {Lo(r) : r \in table}
                  /\ \A i \in 1..(Len(planned) - 1) : planned[i][2] <= planned[i + 1][1]
                  /\ PlannedSegs \cap SpanSegs = {}
                  /\ Segs(reqFrom, reqTo) \subseteq (PlannedSegs \cup SpanSegs)

\* C26: every collection record an executor writes has
\* from_message_id <= to_message_id and from_datetime <= to_datetime
C26_RecordOrdered ==
    \A w \in Workers : \A r \in tk[w].txRows :
        /\ r.from_message_id <= r.to_message_id
        /\ r.from_datetime <= r.to_datetime

(***************************************************************************)
(* Properties of the watch subscriber.                                     *)
(***************************************************************************)
\* the key of session s is written in this step: by the create of a lock or
\* by the update of a refresh
PutOn(s) ==
    \E w \in Workers :
        \/ tk[w].pc = "lock_kv" /\ tk'[w].pc = "lock_local" /\ tk[w].rid = s
        \/ rf[w].pc = "sleep" /\ rf'[w].pc = "updated" /\ current[w].rid = s

\* the key of session s is removed in this step: purged or expired
RemovedOn(s) == kv[s].present /\ ~kv'[s].present

\* on_kv_event of worker w will be called with one more event, about session s
ForwardedTo(w, s) ==
    /\ Len(watch'[w]) = Len(watch[w]) + 1
    /\ watch'[w][Len(watch'[w])].key = s

\* C27: every mutation of a key under the prefix (a put by any worker, a
\* purge, an expiry) that the subscriber of a consuming worker receives is
\* handed to on_kv_event of that worker
C27_WatchForwarding ==
    [][\A s \in Sessions :
          (PutOn(s) \/ RemovedOn(s)) => \A w \in active : ForwardedTo(w, s)]_vars

(***************************************************************************)
(* Properties of the choice of the session by a backfill task.             *)
(***************************************************************************)
\* the backfill task of worker w leaves the step at pc in this step
Leaves(w, pc) ==
    /\ tk[w].kind \in {"PN", "RN"}
    /\ tk[w].pc = pc
    /\ tk'[w].pc # pc

\* the session find_subscribed_session gives the task of worker w
SubscribedOf(w) ==
    IF tk[w].chan \in entities THEN subscribed(tk[w].chan) ELSE None

\* C28: a backfill task whose entity has a subscribed session tries lock() of
\* that session and proceeds with it when lock returns True; with no entity,
\* no subscribed session, or lock returning False, it goes on to session()
\* and takes a session from the pool instead of failing
C28_PoolFallback ==
    [][\A w \in Workers :
          /\ Leaves(w, "start") =>
                IF SubscribedOf(w) = None THEN tk'[w].pc = "sess_pick"
                ELSE tk'[w].pc = "lock_kv" /\ tk'[w].rid = SubscribedOf(w)
          /\ Leaves(w, "sticky_ret") =>
                IF tk[w].res
                THEN tk'[w].pc = "open" /\ tk'[w].useSess = SubscribedOf(w)
                ELSE tk'[w].pc = "sess_pick"]_vars

\* the backfill task of worker w took its session from the pool, resolved the
\* entity of its channel and completed
CompletedFromPool(w) ==
    /\ tk[w].kind \in {"PN", "RN"}
    /\ tk[w].pc = "done"
    /\ tk[w].picked # None
    /\ tk[w].chan \in entities
    /\ tk[w].decision = "ack"

\* C29: after a backfill task that took its session from the pool resolved
\* the entity and completed, find_subscribed_session returns a session for
\* that entity
C29_StickyMappingCreated ==
    \A w \in Workers : CompletedFromPool(w) => subscribed(tk[w].chan) # None

\* the session that session() gave the task of worker w has no row in the
\* sessions table
Vanished(w) == tk[w].picked # None /\ tk[w].picked \notin directory

\* C30: when the session a task obtained from the manager is absent from the
\* sessions table, the task calls update_resources with the ids of the
\* table, nacks its message exactly once, and ends without the lease on that
\* session
C30_SessionVanished ==
    /\ [][\A w \in Workers :
            (tk[w].pc = "got_session" /\ tk'[w].pc # "got_session" /\ Vanished(w))
                => states'[w] = update_resources(states[w], directory)]_vars
    /\ [](\A w \in Workers :
            (tk[w].pc = "done" /\ Vanished(w))
                => /\ tk[w].decision = "nack"
                   /\ ~tk[w].extra
                   /\ held[w][tk[w].picked] # "live")
(***************************************************************************)
(* Stop conditions of the iteration.                                       *)
(***************************************************************************)
Incremental(w) == tk[w].kind \in {"PS", "RS"}

\* the message collect_messages hands to the loop next is at or below
\* last_message_id
AtOldMessage(w) ==
    /\ tk[w].pc = "iter"
    /\ tk[w].pos <= Len(history)
    /\ history[tk[w].pos].id <= lastId

\* C31: incremental stop condition. In an incremental task the iteration stops
\* at the first iterated message with id <= last_message_id: the step taken
\* at such a message leaves the loop and emits and counts nothing; no message
\* with id <= last_message_id is emitted or lies in the range of a record the
\* task writes, the counter is the number of messages emitted, and every
\* message iterated before the stop has been emitted.
C31_IncrementalStop ==
    /\ [][\A w \in Workers :
            (Incremental(w) /\ AtOldMessage(w) /\ tk'[w] # tk[w])
                => /\ tk'[w].pc # "iter"
                   /\ tk'[w].sent = tk[w].sent
                   /\ tk'[w].counter = tk[w].counter
                   /\ outbox' = outbox]_vars
    /\ [](\A w \in Workers :
            Incremental(w) =>
                /\ \A x \in tk[w].sent : x[2] > lastId
                /\ \A r \in tk[w].txRows : /\ r.from_message_id > lastId
                                           /\ r.to_message_id > lastId
                /\ tk[w].counter = Cardinality(tk[w].sent)
                /\ \A i \in 1..(tk[w].pos - 1) :
                      <<1, history[i].id>> \in tk[w].sent)

\* an incremental task emitted the newer message and stopped at the older one
C31_Witness ==
    \E w \in Workers :
        /\ tk[w].kind = "PS"
        /\ tk[w].pc = "save"
        /\ tk[w].pos = 2
        /\ Len(history) = 2
        /\ history[2].id <= lastId
        /\ tk[w].sent = {<<1, history[1].id>>}
        /\ history[1].id \in outbox

Backfill(w) == tk[w].kind \in {"PN", "RN"}

\* the date of the message of the channel with this id
DateOf(id) == (CHOOSE i \in 1..Len(history) : history[i].id = id)

\* message m lies outside the sub-range (a, b)
OutOfRange(m, rg) == m.date < rg[1] \/ m.date > rg[2]

\* C32: backfill stop condition. In a backfill task, for each planned
\* sub-range (a, b), the step taken at the first iterated message with
\* date < a or date > b leaves the loop of that sub-range without emitting it,
\* and every message emitted and counted for the sub-range has
\* a <= date <= b.
C32_BackfillStop ==
    /\ [][\A w \in Workers :
            (/\ Backfill(w)
             /\ tk[w].pc = "iter"
             /\ tk[w].pos <= Len(history)
             /\ OutOfRange(history[tk[w].pos], tk[w].ranges[tk[w].ri])
             /\ tk'[w] # tk[w])
                => /\ tk'[w].pc # "iter" \/ tk'[w].ri # tk[w].ri
                   /\ tk'[w].sent = tk[w].sent]_vars
    /\ [](\A w \in Workers :
            Backfill(w) =>
                \A x \in tk[w].sent :
                    ~OutOfRange(history[DateOf(x[2])], tk[w].ranges[x[1]]))
(***************************************************************************)
(* Paths of the handlers.                                                  *)
(***************************************************************************)
\* the delivery has left the handler
Left(w) == tk[w].pc \in {"end", "done"}

\* C33: incremental entity-not-found. An incremental task whose channel has
\* no entity ends with the bus message acked, once, and without having called
\* the lease manager, opened a client, emitted a message or written a record.
C33_EntityNotFound ==
    \A w \in Workers :
        (Incremental(w) /\ tk[w].chan \notin entities /\ Left(w)) =>
            /\ tk[w].decision = "ack"
            /\ ~tk[w].extra
            /\ tk[w].rid = None
            /\ tk[w].picked = None
            /\ tk[w].useSess = None
            /\ tk[w].sent = {}
            /\ tk[w].txRows = {}

\* the task of worker w holds a lease whose key is in the bucket
LeaseKeyPresent(w) ==
    \E s \in Sessions : held[w][s] = "live" /\ kv[s].present

\* the task of worker w adds a collection record in this step
WritesRecord(w) == tk'[w].txRows # tk[w].txRows /\ tk'[w].txRows # {}

\* C34: completion order. A task writes its collection records while it
\* still holds its lease, and acks its bus message only after the release:
\* no step acks while the key of a lease of the task is present in the bucket.
C34_CompletionOrder ==
    [][\A w \in Workers :
          /\ WritesRecord(w) => LeaseKeyPresent(w)
          /\ Acks(w) => ~LeaseKeyPresent(w)]_vars

\* the lock of the subscribed session s was refused in the delivery worker w
\* handles, and the delivery has not acquired s since
RefusedSticky(w, s) ==
    /\ tk[w].refused = s
    /\ held[w][s] # "live"

\* worker w calls rlm.unlock(s) in this step
CallsUnlock(w, s) ==
    /\ tk[w].pc # "unlock_kv"
    /\ tk'[w].pc = "unlock_kv"
    /\ tk'[w].rid = s

\* C37: no purge after failed sticky acquire. A delivery whose lock of the
\* subscribed session returned False neither calls unlock for that session
\* nor purges its key: whatever removes the key afterwards is not a step of
\* this worker.
C37_NoPurgeAfterRefusedSticky ==
    [][\A w \in Workers : \A s \in Sessions :
          RefusedSticky(w, s) => /\ ~CallsUnlock(w, s)
                                 /\ ~Purges(w, s)]_vars

\* a delivery ended nacked after its lock of session 1 was refused, and the
\* key pod-2 wrote is still in the bucket
C37_Witness ==
    \E w \in Workers :
        /\ tk[w].pc = "done"
        /\ tk[w].decision = "nack"
        /\ tk[w].refused = 1
        /\ kv[1].present
        /\ kv[1].value = "pod-2"
        /\ held["w2"][1] = "live"

\* C38: exactly one ack decision per delivery. When a delivery has ended,
\* on whatever path, the bus message has received one ack or one nack: a
\* decision was made, and msg.ack() / msg.nack() was not called a second time.
C38_OneDecision ==
    \A w \in Workers :
        tk[w].pc = "done" => /\ tk[w].decision \in {"ack", "nack"}
                             /\ ~tk[w].extra

\* the sessions whose lease worker w acquired and has not released or lost
LeasesOf(w) == {s \in Sessions : held[w][s] = "live"}

\* C39: one lease per task. A worker's task holds at most one session lease
\* at any time (after the lock of the subscribed session succeeded no second
\* session is taken from the pool), and when the delivery has ended every
\* lease it acquired has been released.
C39_OneLeasePerTask ==
    \A w \in Workers :
        /\ Cardinality(LeasesOf(w)) <= 1
        /\ tk[w].pc = "done" => LeasesOf(w) = {}
====
